---- MODULE Spec2Model ----
(***************************************************************************)
(* Model of ACSAPIService (src/js/acsApiService.js): the cache store kept  *)
(* in localStorage, the sliding-window rate limiter, the retry loop and    *)
(* fetchDataForZips, run on the JavaScript event loop (synchronous code    *)
(* runs to its next await, microtasks run before timers and responses).    *)
(*                                                                         *)
(* Time is counted in units of TimeUnit milliseconds, so that the 30-day   *)
(* cache duration fits the checker's integers; every duration of the code  *)
(* is a multiple of it.                                                    *)
(***************************************************************************)
EXTENDS Integers, Sequences, FiniteSets, TLC

\* ------------------------------------------------------------------------
\* State
\* ------------------------------------------------------------------------
VARIABLES
    clock,              \* performance.now(): time since the page's time origin
    ticks,              \* how often the model let time pass
    timeOrigin,         \* Date.now() - performance.now()
    storage,            \* localStorage
    cacheTimers,        \* cacheData retries scheduled with setTimeout(..., 0)
    requestTimestamps,  \* this.requestTimestamps
    calls,              \* the fetchDataForZips calls and their batches
    microtasks,         \* continuations the event loop runs before any task
    network,            \* fetch() requests awaiting their response or its body
    issued,             \* the time of every request sent in the last minute
    lastOp,             \* the latest direct call of a cache method and its result
    options,            \* the options the service was constructed with
    validations,        \* the times of the validateAPIKey requests sent
    index               \* the ZIPCodeIndex object: its maps and flags

vars == <<clock, ticks, timeOrigin, storage, cacheTimers, requestTimestamps,
          calls, microtasks, network, issued, lastOp, options, validations, index>>

\* ------------------------------------------------------------------------
\* Time
\* ------------------------------------------------------------------------
TimeUnit == 100

Ms(n) == n \div TimeUnit

\* Date.now() of a page loaded in 1973: any origin beyond the cache duration
\* behaves like today's. Under a fake clock both clocks start at 0.
EpochOrigin == 1000000000

TimeOrigins == {0, EpochOrigin}

\* ------------------------------------------------------------------------
\* Configuration (constructor options)
\* ------------------------------------------------------------------------
\* options.maxRetries || 3
DefaultMaxRetries == 3

timeout == Ms(30000)

batchSize == 2

requestsPerMinute == 1

\* options.cacheVersion || '1.0'
DefaultCacheVersion == "1.0"

\* this.cacheVersion
cacheVersion == options.cacheVersion

cachePrefix == <<"acs_cache_v", cacheVersion, "_">>

cacheDuration == 30 * 24 * 60 * 60 * Ms(1000)

RateWindow == Ms(60000)

RateSlack == Ms(100)

BackoffBase == Ms(1000)

EvictOnQuota == 20

\* ------------------------------------------------------------------------
\* Bounds of the model
\* ------------------------------------------------------------------------
MaxTicks == 2

\* The largest maxRetries option a service is constructed with
MaxRetriesOption == 6

MaxWriteAttempts == 3

\* localStorage capacity, in units of one cache entry.
StorageQuota == 3

\* ------------------------------------------------------------------------
\* Generic helpers
\* ------------------------------------------------------------------------
NULL == [null |-> TRUE]

Range(s) == {s[i] : i \in DOMAIN s}

Min(a, b) == IF a <= b THEN a ELSE b

Max(a, b) == IF a >= b THEN a ELSE b

RECURSIVE Pow2(_)
Pow2(n) == IF n <= 0 THEN 1 ELSE 2 * Pow2(n - 1)

\* Array.prototype.slice(from, to), 0-based, end exclusive
Slice(s, from, to) ==
    [i \in 1..(Min(to, Len(s)) - Min(from, Len(s))) |-> s[from + i]]

\* ------------------------------------------------------------------------
\* Strings that are hashed or sorted are sequences of UTF-16 code units
\* ------------------------------------------------------------------------
VarX == <<88>>

VarY == <<89>>

Comma == 44

\* The variable lists callers pass
VarLists == {<<>>, <<VarY, VarX>>}

\* s < t as JavaScript compares strings
RECURSIVE StrLess(_, _)
StrLess(s, t) ==
    IF t = <<>> THEN FALSE
    ELSE IF s = <<>> THEN TRUE
    ELSE IF Head(s) # Head(t) THEN Head(s) < Head(t)
    ELSE StrLess(Tail(s), Tail(t))

RECURSIVE InsertSorted(_, _)
InsertSorted(x, s) ==
    IF s = <<>> THEN <<x>>
    ELSE IF StrLess(x, Head(s)) THEN <<x>> \o s
    ELSE <<Head(s)>> \o InsertSorted(x, Tail(s))

\* Array.prototype.sort() on strings (default comparison, stable)
RECURSIVE SortStrings(_)
SortStrings(s) ==
    IF s = <<>> THEN <<>>
    ELSE InsertSorted(s[Len(s)], SortStrings(SubSeq(s, 1, Len(s) - 1)))

\* Array.prototype.join(',')
RECURSIVE Join(_)
Join(s) ==
    IF s = <<>> THEN <<>>
    ELSE IF Len(s) = 1 THEN s[1]
    ELSE s[1] \o <<Comma>> \o Join(Tail(s))

\* One round of hashString: hash = ((hash << 5) - hash) + char; hash & hash,
\* i.e. 31 * hash + char wrapped to a signed 32-bit integer (computed on
\* 16-bit halves so that no intermediate value leaves 32 bits).
HashStep(hash, char) ==
    LET lo  == hash % 65536
        hi  == (hash \div 65536) % 65536
        lo1 == 31 * lo + char
        lo2 == lo1 % 65536
        hi2 == (31 * hi + (lo1 \div 65536)) % 65536
    IN  IF hi2 >= 32768 THEN (hi2 - 65536) * 65536 + lo2 ELSE hi2 * 65536 + lo2

RECURSIVE HashFrom(_, _)
HashFrom(hash, str) ==
    IF str = <<>> THEN hash ELSE HashFrom(HashStep(hash, Head(str)), Tail(str))

\* Number.prototype.toString(16): the hexadecimal digits of n >= 0
RECURSIVE HexDigits(_)
HexDigits(n) ==
    IF n < 16 THEN <<n>> ELSE HexDigits(n \div 16) \o <<n % 16>>

\* String.prototype.padStart(8, '0') on a digit string
PadStart8(d) == [i \in 1..(8 - Len(d)) |-> 0] \o d

\* hashString(str): Math.abs(hash).toString(16).padStart(8, '0')
hashString(str) ==
    LET hash == HashFrom(0, str)
    IN  IF hash = -2147483647 - 1 THEN <<8, 0, 0, 0, 0, 0, 0, 0>>
        ELSE PadStart8(HexDigits(IF hash < 0 THEN -hash ELSE hash))

\* getCacheKey with the prefix of the default version, whatever the
\* service's version
getCacheKey_Unversioned(zip, variables) ==
    [prefix |-> <<"acs_cache_v", DefaultCacheVersion, "_">>, zip |-> zip,
     hash |-> hashString(Join(SortStrings(variables)))]

\* getCacheKey(zip, variables): `${cachePrefix}${zip}_${varsHash}`
getCacheKey(zip, variables) ==
    [prefix |-> cachePrefix, zip |-> zip, hash |-> hashString(Join(SortStrings(variables)))]

\* ------------------------------------------------------------------------
\* localStorage: an ordered list of items [key, value, size]. A value is the
\* JSON text of a cache entry (kind "entry"), a text JSON.parse rejects
\* (kind "corrupt") or data of other code of the page (kind "other").
\* Sizes are key.length + value.length in characters.
\* ------------------------------------------------------------------------
EntryChars == 280

QuotaChars == StorageQuota * EntryChars

maxSizeBytes == 50 * 1024 * 1024

ErrorsKey == [prefix |-> <<"acs_api_errors">>, zip |-> "", hash |-> <<>>]

OtherKey == [prefix |-> <<"census_education_">>, zip |-> "", hash |-> <<>>]

CorruptValue == [kind |-> "corrupt", data |-> <<>>, metadata |-> <<>>, expiry |-> 0]

OtherValue == [kind |-> "other", data |-> <<>>, metadata |-> <<>>, expiry |-> 0]

\* index of key in the store, 0 when absent
IndexOfKey(st, key) ==
    IF \E i \in DOMAIN st : st[i].key = key
    THEN CHOOSE i \in DOMAIN st : st[i].key = key
    ELSE 0

HasKey(st, key) == IndexOfKey(st, key) # 0

\* localStorage.getItem(key): the value, or NULL
getItem(st, key) ==
    IF HasKey(st, key) THEN st[IndexOfKey(st, key)].value ELSE NULL

RemoveAt(st, i) == SubSeq(st, 1, i - 1) \o SubSeq(st, i + 1, Len(st))

\* localStorage.removeItem(key)
removeItem(st, key) ==
    IF HasKey(st, key) THEN RemoveAt(st, IndexOfKey(st, key)) ELSE st

RECURSIVE TotalSize(_)
TotalSize(st) == IF st = <<>> THEN 0 ELSE Head(st).size + TotalSize(Tail(st))

\* the store after localStorage.setItem(key, value), whatever its capacity
PutItem(st, key, value, size) ==
    LET item == [key |-> key, value |-> value, size |-> size]
    IN  IF HasKey(st, key)
        THEN [st EXCEPT ![IndexOfKey(st, key)] = item]
        ELSE Append(st, item)

\* localStorage.setItem(key, value): throws QuotaExceededError, leaving the
\* store as it was, when the item does not fit
setItem(st, key, value, size) ==
    LET put == PutItem(st, key, value, size)
    IN  IF TotalSize(put) > QuotaChars
        THEN [ok |-> FALSE, storage |-> st]
        ELSE [ok |-> TRUE, storage |-> put]

\* key.startsWith(this.cachePrefix)
StartsWithPrefix(key) == key.prefix = cachePrefix

\* JSON.parse(value) throws, or the parsed value has no readable fields
ParseThrows(value) == value.kind = "corrupt"

\* ------------------------------------------------------------------------
\* Cache store
\* ------------------------------------------------------------------------
\* JSON.stringify turns the NaN of an unparsable number into null
JSONValue(v) == IF v.t = "nan" THEN [t |-> "null", v |-> 0] ELSE v

\* The entry cacheData builds and serialises with JSON.stringify
CacheEntryOf(data, now) ==
    [kind     |-> "entry",
     data     |-> [k \in DOMAIN data.data |-> JSONValue(data.data[k])],
     metadata |-> [fetchedAt    |-> data.metadata.fetchedAt,
                   source       |-> data.metadata.source,
                   cachedAt     |-> now,
                   cacheVersion |-> cacheVersion],
     expiry   |-> now + cacheDuration]

\* getFromCache comparing with >= : an entry counts as expired at its expiry
\* time already
getFromCache_ExpiresEarly(st, zip, variables, now) ==
    LET cacheKey == getCacheKey(zip, variables)
        cached   == getItem(st, cacheKey)
    IN  IF cached = NULL THEN [value |-> NULL, storage |-> st]
        ELSE IF ParseThrows(cached) THEN [value |-> NULL, storage |-> st]
        ELSE IF now >= cached.expiry
             THEN [value |-> NULL, storage |-> removeItem(st, cacheKey)]
        ELSE [value   |-> [data |-> cached.data, metadata |-> cached.metadata],
              storage |-> st]

\* getFromCache reporting the miss on an expired entry without the
\* removeItem call
getFromCache_KeepExpired(st, zip, variables, now) ==
    LET cacheKey == getCacheKey(zip, variables)
        cached   == getItem(st, cacheKey)
    IN  IF cached = NULL THEN [value |-> NULL, storage |-> st]
        ELSE IF ParseThrows(cached) THEN [value |-> NULL, storage |-> st]
        ELSE IF now > cached.expiry
             THEN [value |-> NULL, storage |-> st]
        ELSE [value   |-> [data |-> cached.data, metadata |-> cached.metadata],
              storage |-> st]

\* getFromCache(zip, variables) at Date.now() = now: the value returned
\* (NULL for a miss) and the store it leaves
getFromCache(st, zip, variables, now) ==
    LET cacheKey == getCacheKey(zip, variables)
        cached   == getItem(st, cacheKey)
    IN  IF cached = NULL THEN [value |-> NULL, storage |-> st]
        ELSE IF ParseThrows(cached) THEN [value |-> NULL, storage |-> st]
        ELSE IF now > cached.expiry
             THEN [value |-> NULL, storage |-> removeItem(st, cacheKey)]
        ELSE [value   |-> [data |-> cached.data, metadata |-> cached.metadata],
              storage |-> st]

\* The cachedAt time clearOldestCacheEntries ranks an item by
CachedAtOf(item) ==
    IF ParseThrows(item.value) THEN 0 ELSE item.value.metadata.cachedAt

RECURSIVE InsertByCachedAt(_, _)
InsertByCachedAt(e, s) ==
    IF s = <<>> THEN <<e>>
    ELSE IF e.cachedAt < Head(s).cachedAt THEN <<e>> \o s
    ELSE <<Head(s)>> \o InsertByCachedAt(e, Tail(s))

\* entries.sort((a, b) => a.cachedAt - b.cachedAt), stable
RECURSIVE SortByCachedAt(_)
SortByCachedAt(s) ==
    IF s = <<>> THEN <<>>
    ELSE InsertByCachedAt(s[Len(s)], SortByCachedAt(SubSeq(s, 1, Len(s) - 1)))

RECURSIVE RemoveKeys(_, _)
RemoveKeys(st, entries) ==
    IF entries = <<>> THEN st
    ELSE RemoveKeys(removeItem(st, Head(entries).key), Tail(entries))

\* clearOldestCacheEntries(count): the store it leaves
clearOldestCacheEntries(st, count) ==
    LET mine    == SelectSeq(st, LAMBDA item : StartsWithPrefix(item.key))
        entries == [i \in DOMAIN mine |->
                        [key |-> mine[i].key, cachedAt |-> CachedAtOf(mine[i])]]
    IN  RemoveKeys(st, Slice(SortByCachedAt(entries), 0, count))

\* Math.ceil(a / b) for b > 0
CeilDiv(a, b) == -((-a) \div b)

\* manageCacheSize(maxSizeMB = 50): the store it leaves
manageCacheSize(st) ==
    LET totalSize == TotalSize(st)
        toClear   == CeilDiv(10 * totalSize - 8 * maxSizeBytes, 10 * 1024 * 1024)
    IN  IF totalSize > maxSizeBytes
        THEN clearOldestCacheEntries(st, Max(50, toClear * 10))
        ELSE st

\* cacheData(zip, variables, data) at Date.now() = now, as attempt number
\* `tries` at this write: the store it leaves and the retries it schedules with
\* setTimeout(..., 0)
cacheData(st, timers, zip, variables, data, tries, now) ==
    LET cacheKey == getCacheKey(zip, variables)
        written  == setItem(st, cacheKey, CacheEntryOf(data, now), EntryChars)
    IN  IF written.ok
        THEN [ok |-> TRUE, storage |-> manageCacheSize(written.storage), timers |-> timers]
        ELSE [ok      |-> FALSE,
              storage |-> clearOldestCacheEntries(st, EvictOnQuota),
              timers  |-> Append(timers, [zip |-> zip, variables |-> variables,
                                          data |-> data, tries |-> tries + 1])]

\* cleanCache() from index i on: removing an item moves the following ones
\* down by one while i still advances
RECURSIVE cleanCacheFrom(_, _, _)
cleanCacheFrom(st, i, now) ==
    IF i > Len(st) THEN st
    ELSE LET key    == st[i].key
             cached == st[i].value
             remove == /\ StartsWithPrefix(key)
                       /\ \/ ParseThrows(cached)
                          \/ cached.expiry # 0 /\ now > cached.expiry
         IN  cleanCacheFrom(IF remove THEN removeItem(st, key) ELSE st, i + 1, now)

\* cleanCache()
cleanCache(st, now) == cleanCacheFrom(st, 1, now)

\* Mutant of clearCache: the loop runs forward, as the one of cleanCache does
RECURSIVE clearCacheForward(_, _, _)
clearCacheForward(st, i, cleared) ==
    IF i > Len(st) THEN [storage |-> st, cleared |-> cleared]
    ELSE IF StartsWithPrefix(st[i].key)
         THEN clearCacheForward(removeItem(st, st[i].key), i + 1, cleared + 1)
         ELSE clearCacheForward(st, i + 1, cleared)

clearCache_Forward(st) == clearCacheForward(st, 1, 0)

\* Mutant of clearCache: the prefix test is missing
clearCache_Everything(st) == [storage |-> <<>>, cleared |-> Len(st)]

\* clearCache() from index i down: for (let i = localStorage.length - 1; i >= 0; i--)
RECURSIVE clearCacheFrom(_, _, _)
clearCacheFrom(st, i, cleared) ==
    IF i < 1 THEN [storage |-> st, cleared |-> cleared]
    ELSE IF StartsWithPrefix(st[i].key)
         THEN clearCacheFrom(removeItem(st, st[i].key), i - 1, cleared + 1)
         ELSE clearCacheFrom(st, i - 1, cleared)

\* clearCache(): the store it leaves and the count it returns
clearCache(st) == clearCacheFrom(st, Len(st), 0)

\* logError(message, error): its write of 'acs_api_errors'; storage errors
\* are ignored
logError(st) ==
    setItem(st, ErrorsKey, OtherValue, EntryChars).storage

\* ------------------------------------------------------------------------
\* Requests and the provider
\* ------------------------------------------------------------------------
Zips == {"10001", "10002", "10003"}

\* The number a ZIP key stands for: Object.entries lists integer-like keys
\* in ascending numeric order
ZipNum(z) == CASE z = "10001" -> 10001 [] z = "10002" -> 10002 [] z = "10003" -> 10003

\* The ZIP lists callers pass
ZipLists ==
    {<<>>, <<"10001">>, <<"10002", "10001">>, <<"10001", "10002", "10003">>}

\* Raw cell values of the provider's rows
RawValues == {"42", "N/A"}

\* The ways a request fails: fetch rejects, or the response is not ok
Errors == {"HTTP 403"}

AbortError == "AbortError"

\* response.ok
HttpOk == "HTTP 200"

\* fetch() has not settled: no response yet
Pending == "pending"

\* value === null || value === '' ? null : parseFloat(value)
ParseCell(raw) ==
    CASE raw = "42" -> [t |-> "num", v |-> 42]
      [] raw = ""   -> [t |-> "null", v |-> 0]
      [] OTHER      -> [t |-> "nan", v |-> 0]

\* chunkArray whose chunks run one element into the next chunk:
\* array.slice(i, i + size + 1)
RECURSIVE chunkArray_Overlap(_, _)
chunkArray_Overlap(array, size) ==
    IF array = <<>> THEN <<>>
    ELSE <<Slice(array, 0, size + 1)>>
             \o chunkArray_Overlap(Slice(array, size, Len(array)), size)

\* chunkArray(array, size)
RECURSIVE chunkArray(_, _)
chunkArray(array, size) ==
    IF array = <<>> THEN <<>>
    ELSE <<Slice(array, 0, size)>> \o chunkArray(Slice(array, size, Len(array)), size)

\* parseAPIResponse(data, variables, requestedZips) for a response whose rows
\* are the ZIPs of DOMAIN rows, each with one raw value in every column
parseAPIResponse(rows, variables, requestedZips, now) ==
    [zip \in DOMAIN rows \cap Range(requestedZips) |->
        [data     |-> [k \in Range(variables) |-> ParseCell(rows[zip])],
         metadata |-> [fetchedAt |-> now, source |-> "api"]]]

\* Array.from(requestedSet) after the rows were processed: the requested ZIPs
\* the response has no row for, each once in the order of its first place in
\* the request, reported with emit('missingData', ...)
MissingZips(rows, requestedZips) ==
    LET firstOf(i) == \A j \in 1..(i - 1) : requestedZips[j] # requestedZips[i]
        requestedSet == SelectSeq([i \in DOMAIN requestedZips |-> i], firstOf)
        left == SelectSeq(requestedSet, LAMBDA i : requestedZips[i] \notin DOMAIN rows)
    IN  [i \in DOMAIN left |-> requestedZips[left[i]]]

\* Object.entries(value): the keys in ascending numeric order
RECURSIVE EntriesOrder(_)
EntriesOrder(keys) ==
    IF keys = {} THEN <<>>
    ELSE LET first == CHOOSE z \in keys : \A y \in keys : ZipNum(z) <= ZipNum(y)
         IN  <<first>> \o EntriesOrder(keys \ {first})

\* ------------------------------------------------------------------------
\* Rate limiter
\* ------------------------------------------------------------------------
\* this.requestTimestamps.filter(ts => ts > oneMinuteAgo)
PruneTimestamps(ts, now) ==
    LET oneMinuteAgo == now - RateWindow
    IN  SelectSeq(ts, LAMBDA t : t > oneMinuteAgo)

\* enforceRateLimit() up to its first await at Date.now() = now: the pruned
\* window, whether the caller is admitted, and the time it sleeps otherwise
enforceRateLimit(ts, now) ==
    LET kept == PruneTimestamps(ts, now)
    IN  IF Len(kept) >= requestsPerMinute
        THEN [timestamps |-> kept, admitted |-> FALSE,
              waitTime   |-> RateWindow - (now - kept[1]) + RateSlack]
        ELSE [timestamps |-> kept, admitted |-> TRUE, waitTime |-> 0]

\* Math.pow(2, attempt - 1) * 1000
BackoffDelay(attempt) == Pow2(attempt - 1) * BackoffBase

\* new ZIPCodeIndex(): empty maps, nothing loaded
NewIndex ==
    [zips |-> <<>>, stateIndex |-> <<>>, cityIndex |-> <<>>, countyIndex |-> <<>>,
     spatialIndex |-> <<>>, loaded |-> FALSE, totalRecords |-> 0]

\* new ACSAPIService(apiKey) without options
DefaultOptions == [maxRetries |-> DefaultMaxRetries, cacheVersion |-> DefaultCacheVersion]

\* this.maxRetries
maxRetries == options.maxRetries

\* One fetchDataForZips call is followed from its invocation to its result
CallIds == {1}

DateNow == timeOrigin + clock

PerformanceNow == clock

IdleCall ==
    [pc |-> "idle", zipCodes |-> <<>>, variables |-> <<>>, results |-> <<>>,
     missingZips |-> <<>>, batches |-> <<>>, error |-> "",
     checkedAt |-> 0, checkedStore |-> <<>>]

\* What the network answered a request with
NoOutcome == [ok |-> FALSE, error |-> "", value |-> <<>>]

Failure(error) == [ok |-> FALSE, error |-> error, value |-> <<>>]

Success(value) == [ok |-> TRUE, error |-> "", value |-> value]

\* One fetchBatchWithRetry invocation at the top of its loop. admits and sends
\* count its completed enforceRateLimit calls and its fetchBatchFromAPI calls,
\* failures the answers that were failures, lastOutcome is the latest answer;
\* reason is what the promise rejects with, value what it fulfils with
NewBatch(zipCodes) ==
    [zips |-> zipCodes, attempt |-> 1, pc |-> "start", wakeAt |-> 0,
     admits |-> 0, rechecks |-> 0, sends |-> 0, failures |-> 0,
     lastOutcome |-> NoOutcome, missing |-> <<>>,
     lastError |-> "", reason |-> "", value |-> <<>>]

Settled(batch) == batch.pc \in {"fulfilled", "rejected"}

NoOp == [op |-> "none"]

\* Entries written by an earlier session of the page
PriorEntry(zip, variables, cachedAt) ==
    [key   |-> getCacheKey(zip, variables),
     value |-> CacheEntryOf([data     |-> [k \in Range(variables) |-> ParseCell("42")],
                             metadata |-> [fetchedAt |-> cachedAt, source |-> "api"]],
                            cachedAt),
     size  |-> EntryChars]

CorruptEntry(zip, variables) ==
    [key |-> getCacheKey(zip, variables), value |-> CorruptValue, size |-> EntryChars]

OtherItem(size) == [key |-> OtherKey, value |-> OtherValue, size |-> size]

\* What localStorage may hold when the service is constructed at time now
PriorStorages(now) ==
    {<<PriorEntry("10003", <<VarX, VarY>>, now - cacheDuration - 2),
       PriorEntry("10002", <<VarX, VarY>>, now - cacheDuration - 1),
       PriorEntry("10001", <<VarX, VarY>>, now - 1)>>,
     <<OtherItem(QuotaChars - 2 * EntryChars),
       CorruptEntry("10001", <<VarX, VarY>>),
       PriorEntry("10002", <<VarX>>, now - 1)>>}

\* new ACSAPIService(apiKey, options): the constructor ends with cleanCache()
Init ==
    /\ options = DefaultOptions
    /\ clock = 0
    /\ ticks = 0
    /\ timeOrigin \in TimeOrigins
    /\ storage \in {cleanCache(prior, timeOrigin) : prior \in PriorStorages(timeOrigin)}
    /\ cacheTimers = <<>>
    /\ requestTimestamps = <<>>
    /\ calls = [c \in CallIds |-> IdleCall]
    /\ microtasks = <<>>
    /\ network = {}
    /\ issued = <<>>
    /\ lastOp = NoOp
    /\ validations = <<>>
    /\ index = NewIndex

\* ------------------------------------------------------------------------
\* fetchBatchWithRetry, one step at a time
\* ------------------------------------------------------------------------
\* Mutant of BeginAttempt: a retry skips enforceRateLimit()
BeginAttempt_RetryExempt(batch, ts, now, perf) ==
    LET limit == enforceRateLimit(ts, now)
    IN  IF batch.attempt > 1
        THEN [batch |-> [batch EXCEPT !.pc = "admitted"], timestamps |-> ts]
        ELSE [batch      |-> IF limit.admitted
                             THEN [batch EXCEPT !.pc = "admitted", !.admits = @ + 1]
                             ELSE [batch EXCEPT !.pc = "rateWait",
                                                !.rechecks = @ + 1,
                                                !.wakeAt = perf + limit.waitTime],
              timestamps |-> limit.timestamps]

\* A batch calls enforceRateLimit(): it is admitted and continues in a
\* microtask, or sleeps for the computed wait
BeginAttempt(batch, ts, now, perf) ==
    LET limit == enforceRateLimit(ts, now)
    IN  [batch      |-> IF limit.admitted
                        THEN [batch EXCEPT !.pc = "admitted", !.admits = @ + 1]
                        ELSE [batch EXCEPT !.pc = "rateWait",
                                           !.rechecks = @ + 1,
                                           !.wakeAt = perf + limit.waitTime],
         timestamps |-> limit.timestamps]

\* Mutant of AfterSleep: enforceRateLimit returns after its sleep without
\* calling itself again
AfterSleep_NoRecheck(batch, ts, now, perf) ==
    IF batch.pc = "rateWait"
    THEN [batch |-> [batch EXCEPT !.pc = "admitted", !.admits = @ + 1], timestamps |-> ts]
    ELSE BeginAttempt(batch, ts, now, perf)

\* A sleeping batch wakes: after the backoff sleep it calls enforceRateLimit(),
\* after the sleep of enforceRateLimit() that one calls itself again
AfterSleep(batch, ts, now, perf) == BeginAttempt(batch, ts, now, perf)

\* for (const batch of batches) batchPromises.push(this.fetchBatchWithRetry(...)):
\* every batch runs to its first await before the next one starts
RECURSIVE DispatchBatches(_, _, _, _)
DispatchBatches(chunks, ts, now, perf) ==
    IF chunks = <<>> THEN [batches |-> <<>>, timestamps |-> ts]
    ELSE LET first == BeginAttempt(NewBatch(Head(chunks)), ts, now, perf)
             rest  == DispatchBatches(Tail(chunks), first.timestamps, now, perf)
         IN  [batches    |-> <<first.batch>> \o rest.batches,
              timestamps |-> rest.timestamps]

SendTask(c, b) == [kind |-> "send", call |-> c, batch |-> b]

MergeTask(c) == [kind |-> "merge", call |-> c, batch |-> 0]

\* The continuations of the batches of call c that were admitted, in order
AdmittedTasks(c, batches) ==
    LET all == [b \in DOMAIN batches |-> SendTask(c, b)]
    IN  SelectSeq(all, LAMBDA t : batches[t.batch].pc = "admitted")

\* Mutant of AfterFailure: the loop gives up one attempt early
AfterFailure_GiveUpEarly(batch, error, perf) ==
    LET failed == [batch EXCEPT !.lastError = error]
    IN  IF batch.attempt >= maxRetries - 1
        THEN [failed EXCEPT !.pc = "rejected", !.reason = error]
        ELSE [failed EXCEPT !.pc = "backoff",
                            !.attempt = @ + 1,
                            !.rechecks = 0,
                            !.wakeAt = perf + BackoffDelay(batch.attempt + 1)]

\* Mutant of AfterFailure: the loop allows one attempt more
AfterFailure_ExtraAttempt(batch, error, perf) ==
    LET failed == [batch EXCEPT !.lastError = error]
    IN  IF batch.attempt = maxRetries + 1
        THEN [failed EXCEPT !.pc = "rejected", !.reason = error]
        ELSE [failed EXCEPT !.pc = "backoff",
                            !.attempt = @ + 1,
                            !.rechecks = 0,
                            !.wakeAt = perf + BackoffDelay(batch.attempt + 1)]

\* The catch block of fetchBatchWithRetry after attempt `batch.attempt` failed
\* with error: give up at maxRetries, else sleep for the backoff delay
AfterFailure(batch, error, perf) ==
    LET failed == [batch EXCEPT !.lastError = error]
    IN  IF batch.attempt = maxRetries
        THEN [failed EXCEPT !.pc = "rejected", !.reason = error]
        ELSE [failed EXCEPT !.pc = "backoff",
                            !.attempt = @ + 1,
                            !.rechecks = 0,
                            !.wakeAt = perf + BackoffDelay(batch.attempt + 1)]

\* Mutant of AfterSuccess: a response that lacks a requested ZIP counts as a
\* failed batch
AfterSuccess_FailOnMissing(batch, value) ==
    IF batch.missing # <<>>
    THEN [batch EXCEPT !.pc = "rejected", !.reason = "missing"]
    ELSE [batch EXCEPT !.pc = "fulfilled", !.value = value]

\* return await this.fetchBatchFromAPI(...) with a parsed response
AfterSuccess(batch, value) ==
    [batch EXCEPT !.pc = "fulfilled", !.value = value]

\* ------------------------------------------------------------------------
\* fetchDataForZips
\* ------------------------------------------------------------------------
\* Mutant of CheckCache: a cache hit is still queued for fetching
RECURSIVE CheckCache_RefetchHits(_, _, _, _)
CheckCache_RefetchHits(zipCodes, variables, st, now) ==
    IF zipCodes = <<>> THEN [results |-> <<>>, missingZips |-> <<>>, storage |-> st]
    ELSE LET zip  == Head(zipCodes)
             read == getFromCache(st, zip, variables, now)
             rest == CheckCache_RefetchHits(Tail(zipCodes), variables, read.storage, now)
         IN  IF read.value # NULL
             THEN [rest EXCEPT !.results = (zip :> read.value) @@ @,
                               !.missingZips = <<zip>> \o @]
             ELSE [rest EXCEPT !.missingZips = <<zip>> \o @]

\* for (const zip of zipCodes) { const cached = this.getFromCache(zip, variables) ... }
RECURSIVE CheckCache(_, _, _, _)
CheckCache(zipCodes, variables, st, now) ==
    IF zipCodes = <<>> THEN [results |-> <<>>, missingZips |-> <<>>, storage |-> st]
    ELSE LET zip  == Head(zipCodes)
             read == getFromCache(st, zip, variables, now)
             rest == CheckCache(Tail(zipCodes), variables, read.storage, now)
         IN  IF read.value # NULL
             THEN [rest EXCEPT !.results = (zip :> read.value) @@ @]
             ELSE [rest EXCEPT !.missingZips = <<zip>> \o @]

\* MergeEntries that keeps an entry in the results only when its cache write
\* succeeded
RECURSIVE MergeEntries_DropUnwritten(_, _, _, _, _)
MergeEntries_DropUnwritten(order, value, variables, acc, now) ==
    IF order = <<>> THEN acc
    ELSE LET zip   == Head(order)
             wrote == cacheData(acc.storage, acc.timers, zip, variables, value[zip], 1, now)
         IN  MergeEntries_DropUnwritten(Tail(order), value, variables,
                          [results |-> IF wrote.ok THEN (zip :> value[zip]) @@ acc.results
                                       ELSE acc.results,
                           storage |-> wrote.storage,
                           timers  |-> wrote.timers], now)

\* for (const [zip, data] of Object.entries(result.value)) { results.set(zip, data);
\* this.cacheData(zip, variables, data) }
RECURSIVE MergeEntries(_, _, _, _, _)
MergeEntries(order, value, variables, acc, now) ==
    IF order = <<>> THEN acc
    ELSE LET zip   == Head(order)
             wrote == cacheData(acc.storage, acc.timers, zip, variables, value[zip], 1, now)
         IN  MergeEntries(Tail(order), value, variables,
                          [results |-> (zip :> value[zip]) @@ acc.results,
                           storage |-> wrote.storage,
                           timers  |-> wrote.timers], now)

\* Mutant of MergeBatches: the first rejected batch ends the processing, as with
\* Promise.all
RECURSIVE MergeBatches_StopAtFailure(_, _, _, _)
MergeBatches_StopAtFailure(batches, variables, acc, now) ==
    IF batches = <<>> THEN acc
    ELSE LET batch == Head(batches)
         IN  IF batch.pc = "fulfilled"
             THEN MergeBatches_StopAtFailure(Tail(batches), variables,
                      MergeEntries(EntriesOrder(DOMAIN batch.value), batch.value,
                                   variables, acc, now), now)
             ELSE [acc EXCEPT !.storage = logError(@)]

\* for (const result of batchResults) { fulfilled: merge and cache; rejected: logError }
RECURSIVE MergeBatches(_, _, _, _)
MergeBatches(batches, variables, acc, now) ==
    IF batches = <<>> THEN acc
    ELSE LET batch == Head(batches)
             next  == IF batch.pc = "fulfilled"
                      THEN MergeEntries(EntriesOrder(DOMAIN batch.value), batch.value,
                                        variables, acc, now)
                      ELSE [acc EXCEPT !.storage = logError(@)]
         IN  MergeBatches(Tail(batches), variables, next, now)

\* ------------------------------------------------------------------------
\* Actions
\* ------------------------------------------------------------------------
\* Requests older than the rate window no longer count for any window
RecentIssued(times, perf) == SelectSeq(times, LAMBDA t : perf - t < RateWindow)

\* Mutant of ValidationError: the test of the variable list is missing
ValidationError_ZipsOnly(zipCodes, variables) ==
    IF zipCodes = <<>> THEN "No ZIP codes provided" ELSE ""

\* The input validation of fetchDataForZips: the message of the error it
\* throws, "" when it throws none
ValidationError(zipCodes, variables) ==
    IF zipCodes = <<>> THEN "No ZIP codes provided"
    ELSE IF variables = <<>> THEN "No variables specified"
    ELSE ""

\* A caller invokes fetchDataForZips(zipCodes, variables): validation, the cache
\* check and the dispatch of all batches run synchronously; a call without
\* misses returns at once
FetchDataForZips(c, zipCodes, variables) ==
    /\ calls[c].pc = "idle"
    /\ UNCHANGED <<index, options, validations, lastOp, clock, ticks, timeOrigin, cacheTimers, network, issued>>
    /\ IF ValidationError(zipCodes, variables) # ""
       THEN /\ calls' = [calls EXCEPT ![c] =
                            [@ EXCEPT !.pc = "rejected", !.zipCodes = zipCodes,
                                      !.variables = variables,
                                      !.error = ValidationError(zipCodes, variables)]]
            /\ storage' = logError(storage)
            /\ UNCHANGED <<index, options, validations, requestTimestamps, microtasks>>
       ELSE LET checked  == CheckCache(zipCodes, variables, storage, DateNow)
                sorted   == SortStrings(variables)
                chunks   == chunkArray(checked.missingZips, batchSize)
                started  == DispatchBatches(chunks, requestTimestamps, DateNow,
                                            PerformanceNow)
            IN  /\ storage' = checked.storage
                /\ requestTimestamps' = started.timestamps
                /\ microtasks' = microtasks \o AdmittedTasks(c, started.batches)
                /\ calls' = [calls EXCEPT ![c] =
                                [@ EXCEPT !.pc = IF checked.missingZips = <<>>
                                                 THEN "resolved" ELSE "awaiting",
                                          !.zipCodes = zipCodes,
                                          !.variables = sorted,
                                          !.checkedAt = DateNow,
                                          !.checkedStore = storage,
                                          !.results = checked.results,
                                          !.missingZips = checked.missingZips,
                                          !.batches = started.batches]]

\* The continuation after `await this.enforceRateLimit()`: fetchBatchFromAPI
\* records the request's start time and calls fetch()
SendRequest ==
    /\ microtasks # <<>>
    /\ Head(microtasks).kind = "send"
    /\ LET c == Head(microtasks).call
           b == Head(microtasks).batch
       IN  /\ requestTimestamps' = Append(requestTimestamps, PerformanceNow)
           /\ network' = network \cup
                  {[call |-> c, batch |-> b, attempt |-> calls[c].batches[b].attempt,
                    startTime |-> PerformanceNow, response |-> Pending]}
           /\ issued' = Append(RecentIssued(issued, PerformanceNow), PerformanceNow)
           /\ calls' = [calls EXCEPT ![c].batches[b].pc = "inflight",
                                    ![c].batches[b].sends = @ + 1]
    /\ microtasks' = Tail(microtasks)
    /\ UNCHANGED <<index, options, validations, lastOp, clock, ticks, timeOrigin, storage, cacheTimers>>

\* Mutant of Completed: a request that failed or timed out stays outstanding
Completed_Leak(requests, r) == requests

\* `await fetch(url, ...)` settles: request r is no longer outstanding
Completed(requests, r) == requests \ {r}

\* AfterSettle in which Promise.allSettled never continues the call
AfterSettle_NeverMerges(c, batches) == <<>>

\* What the settling of batch b of call c adds to the microtask queue:
\* Promise.allSettled resolves once every batch has settled
AfterSettle(c, batches) ==
    IF \A b \in DOMAIN batches : Settled(batches[b]) THEN <<MergeTask(c)>> ELSE <<>>

\* The requests of the batches: fetchBatchFromAPI awaits their fetch()
BatchRequests == {r \in network : r.call \in CallIds}

\* `await fetch(url, ...)` resolves with a response of the given status:
\* clearTimeout(timeoutId) removes the abort timer, and the reading of the
\* body (response.json(), or response.text() when the status is not ok)
\* returns to the event loop
ResponseArrives(r, status) ==
    /\ microtasks = <<>>
    /\ r \in BatchRequests
    /\ r.response = Pending
    /\ network' = (network \ {r}) \cup {[r EXCEPT !.response = status]}
    /\ UNCHANGED <<index, options, validations, lastOp, clock, ticks, timeOrigin, storage,
                   cacheTimers, requestTimestamps, calls, microtasks, issued>>

\* `await response.json()` resolves: the body of the ok response of request r
\* has one row for every ZIP of DOMAIN rows
RespondOk(r, rows) ==
    /\ microtasks = <<>>
    /\ r \in BatchRequests
    /\ r.response = HttpOk
    /\ LET c       == r.call
           batch   == calls[c].batches[r.batch]
           value   == parseAPIResponse(rows, calls[c].variables, batch.zips, DateNow)
           answered == [batch EXCEPT !.lastOutcome = Success(value),
                                     !.missing = MissingZips(rows, batch.zips)]
           batches == [calls[c].batches EXCEPT ![r.batch] = AfterSuccess(answered, value)]
       IN  /\ DOMAIN rows \subseteq Range(batch.zips)
           /\ calls' = [calls EXCEPT ![c].batches = batches]
           /\ microtasks' = AfterSettle(c, batches)
    /\ network' = Completed(network, r)
    /\ requestTimestamps' = PruneTimestamps(requestTimestamps, DateNow)
    /\ UNCHANGED <<index, options, validations, lastOp, clock, ticks, timeOrigin, storage, cacheTimers, issued>>

\* Request r fails: the abort timer fires while fetch() is pending, or the
\* body of a response that is not ok was read (`await response.text()`) and
\* the error is thrown
RespondError(r, error) ==
    /\ microtasks = <<>>
    /\ r \in BatchRequests
    /\ IF error = AbortError
       THEN r.response = Pending /\ PerformanceNow >= r.startTime + timeout
       ELSE r.response = error
    /\ LET c       == r.call
           batch   == calls[c].batches[r.batch]
           answered == [batch EXCEPT !.lastOutcome = Failure(error), !.failures = @ + 1]
           after   == AfterFailure(answered, error, PerformanceNow)
           batches == [calls[c].batches EXCEPT ![r.batch] = after]
       IN  /\ calls' = [calls EXCEPT ![c].batches = batches]
           /\ microtasks' = AfterSettle(c, batches)
           /\ storage' = IF after.pc = "rejected" THEN logError(storage) ELSE storage
    /\ network' = Completed(network, r)
    /\ requestTimestamps' = PruneTimestamps(requestTimestamps, DateNow)
    /\ UNCHANGED <<index, options, validations, lastOp, clock, ticks, timeOrigin, cacheTimers, issued>>

\* The timer of a sleeping batch fires: after a backoff sleep the batch calls
\* enforceRateLimit(), after a rate-limit sleep enforceRateLimit() calls itself
WakeBatch(c, b) ==
    /\ microtasks = <<>>
    /\ b \in DOMAIN calls[c].batches
    /\ calls[c].batches[b].pc \in {"backoff", "rateWait"}
    /\ PerformanceNow >= calls[c].batches[b].wakeAt
    /\ LET begun == AfterSleep(calls[c].batches[b], requestTimestamps, DateNow,
                               PerformanceNow)
       IN  /\ calls' = [calls EXCEPT ![c].batches[b] = begun.batch]
           /\ requestTimestamps' = begun.timestamps
           /\ microtasks' = IF begun.batch.pc = "admitted" THEN <<SendTask(c, b)>> ELSE <<>>
    /\ UNCHANGED <<index, options, validations, lastOp, clock, ticks, timeOrigin, storage, cacheTimers, network, issued>>

\* The continuation after `await Promise.allSettled(batchPromises)`
MergeResults ==
    /\ microtasks # <<>>
    /\ Head(microtasks).kind = "merge"
    /\ LET c      == Head(microtasks).call
           merged == MergeBatches(calls[c].batches, calls[c].variables,
                                  [results |-> calls[c].results, storage |-> storage,
                                   timers |-> cacheTimers], DateNow)
       IN  /\ calls' = [calls EXCEPT ![c].pc = "resolved", ![c].results = merged.results]
           /\ storage' = merged.storage
           /\ cacheTimers' = merged.timers
    /\ microtasks' = Tail(microtasks)
    /\ UNCHANGED <<index, options, validations, lastOp, clock, ticks, timeOrigin, requestTimestamps, network, issued>>

\* The record of a cacheData call: its key, the time, and whether setItem
\* succeeded
WriteOp(zip, variables, ok) ==
    [op |-> "write", zip |-> zip, variables |-> variables, at |-> DateNow, ok |-> ok]

\* The record of a getFromCache call: its key, the time, what the store held
\* under the key and the value the call returned
ReadOp(zip, variables, value) ==
    [op |-> "read", zip |-> zip, variables |-> variables, at |-> DateNow,
     value |-> value, before |-> getItem(storage, getCacheKey(zip, variables))]

\* A caller invokes cacheData(zip, variables, data)
CallCacheData(zip, variables, data) ==
    /\ cacheTimers = <<>>
    /\ LET wrote == cacheData(storage, cacheTimers, zip, variables, data, 1, DateNow)
       IN  /\ storage' = wrote.storage
           /\ cacheTimers' = wrote.timers
           /\ lastOp' = WriteOp(zip, variables, wrote.ok)
    /\ UNCHANGED <<index, options, validations, clock, ticks, timeOrigin, requestTimestamps, calls, microtasks,
                   network, issued>>

\* A caller invokes getFromCache(zip, variables)
CallGetFromCache(zip, variables) ==
    /\ LET read == getFromCache(storage, zip, variables, DateNow)
       IN  /\ storage' = read.storage
           /\ lastOp' = ReadOp(zip, variables, read.value)
    /\ UNCHANGED <<index, options, validations, clock, ticks, timeOrigin, cacheTimers, requestTimestamps, calls,
                   microtasks, network, issued>>

\* setTimeout(() => this.cacheData(zip, variables, data), 0) fires
CacheRetry ==
    /\ microtasks = <<>>
    /\ cacheTimers # <<>>
    /\ Head(cacheTimers).tries <= MaxWriteAttempts
    /\ LET t     == Head(cacheTimers)
           wrote == cacheData(storage, Tail(cacheTimers), t.zip, t.variables, t.data,
                              t.tries, DateNow)
       IN  /\ storage' = wrote.storage
           /\ cacheTimers' = wrote.timers
           /\ lastOp' = WriteOp(t.zip, t.variables, wrote.ok)
    /\ UNCHANGED <<index, options, validations, clock, ticks, timeOrigin, requestTimestamps, calls, microtasks,
                   network, issued>>

\* A caller invokes clearErrorLog(): localStorage.removeItem('acs_api_errors')
ClearErrorLog ==
    /\ storage' = removeItem(storage, ErrorsKey)
    /\ lastOp' = [op |-> "clearErrorLog"]
    /\ UNCHANGED <<index, options, validations, clock, ticks, timeOrigin, cacheTimers,
                   requestTimestamps, calls, microtasks, network, issued>>

\* The most validateAPIKey calls a run makes
MaxValidations == 1

\* The request of the n-th validateAPIKey call, sent at time perf: it belongs
\* to no batch
KeyCheck(n, perf) ==
    [call |-> 0, batch |-> 0, attempt |-> n, startTime |-> perf, response |-> Pending]

\* A caller invokes validateAPIKey(): fetch() is called at once, without
\* enforceRateLimit() and without a push to this.requestTimestamps
ValidateAPIKey ==
    /\ microtasks = <<>>
    /\ Len(validations) < MaxValidations
    /\ network' = network \cup {KeyCheck(Len(validations) + 1, PerformanceNow)}
    /\ issued' = Append(RecentIssued(issued, PerformanceNow), PerformanceNow)
    /\ validations' = Append(validations, PerformanceNow)
    /\ UNCHANGED <<index, options, lastOp, clock, ticks, timeOrigin, storage, cacheTimers,
                   requestTimestamps, calls, microtasks>>

\* The fetch() of validateAPIKey settles, with any status or an error: the
\* call returns its verdict and touches nothing of the service
KeyCheckSettles(r) ==
    /\ microtasks = <<>>
    /\ r \in network \ BatchRequests
    /\ network' = network \ {r}
    /\ UNCHANGED <<index, options, validations, lastOp, clock, ticks, timeOrigin, storage,
                   cacheTimers, requestTimestamps, calls, microtasks, issued>>

\* Time passes between two tasks of the event loop
AdvanceSteps == {Ms(2000), Ms(60000)}

Advance(d) ==
    /\ microtasks = <<>>
    /\ ticks < MaxTicks
    /\ clock' = clock + d
    /\ ticks' = ticks + 1
    /\ UNCHANGED <<index, options, validations, timeOrigin, storage, cacheTimers, requestTimestamps, calls,
                   microtasks, network, issued, lastOp>>

\* A sleep() of a batch or the abort timer of a request is running
TimersPending ==
    \/ \E r \in BatchRequests : r.response = Pending
    \/ \E c \in CallIds : \E b \in DOMAIN calls[c].batches :
           calls[c].batches[b].pc \in {"rateWait", "backoff"}

\* The body of a response is being read: its continuation reads the clock
\* (fetchedAt, cleanOldTimestamps)
AwaitingBody == \E r \in BatchRequests : r.response # Pending

\* Time matters once a call is under way: to its timers and to the
\* continuations that read the clock
ClockIsRead == TimersPending \/ AwaitingBody

\* The cell the provider has for a ZIP: a number, or for one of the ZIPs a
\* text that is no number
RawOf(zip) == IF zip = "10003" THEN "N/A" ELSE "42"

\* The rows a provider may answer a batch with: one for every ZIP asked for,
\* or for every ZIP but the first
Rows(zipCodes) ==
    {[zip \in present |-> RawOf(zip)] :
        present \in {Range(zipCodes), Range(Tail(zipCodes))}}

\* The statuses a response comes with
Statuses == {HttpOk} \cup Errors

\* One fetchDataForZips call on its own, from its invocation to its result:
\* no other method of the service is called meanwhile
NextFetch ==
    \/ \E c \in CallIds, zipCodes \in ZipLists, variables \in VarLists :
           FetchDataForZips(c, zipCodes, variables)
    \/ SendRequest
    \/ \E r \in network, status \in Statuses : ResponseArrives(r, status)
    \/ \E r \in BatchRequests : \E rows \in Rows(calls[r.call].batches[r.batch].zips) :
           RespondOk(r, rows)
    \/ \E r \in network, error \in Errors \cup {AbortError} : RespondError(r, error)
    \/ \E c \in CallIds, b \in 1..Cardinality(Zips) : WakeBatch(c, b)
    \/ MergeResults
    \/ CacheRetry
    \/ \E d \in AdvanceSteps : ClockIsRead /\ Advance(d)

SpecFetch == Init /\ [][NextFetch]_vars

\* The service as a whole: the call, and the callers of clearErrorLog and
\* validateAPIKey at any time
Next ==
    \/ NextFetch
    \/ ClearErrorLog
    \/ ValidateAPIKey
    \/ \E r \in network : KeyCheckSettles(r)

Spec == Init /\ [][Next]_vars

\* ------------------------------------------------------------------------
\* Properties of the fetch service
\* ------------------------------------------------------------------------
\* Every batch of every call, as <<call, index>>
Batches == {cb \in CallIds \X (1..Cardinality(Zips)) : cb[2] \in DOMAIN calls[cb[1]].batches}

BatchOf(cb) == calls[cb[1]].batches[cb[2]]

\* C1: at every moment the number of requests sent within the trailing
\* 60 seconds is at most requestsPerMinute.
C1_RateCeiling ==
    Len(RecentIssued(issued, PerformanceNow)) <= requestsPerMinute

\* Batches that passed the admission check and have not yet recorded their
\* timestamp
PendingAdmissions == {cb \in Batches : BatchOf(cb).pc = "admitted"}

\* C2: check and record are one step, so the callers that passed the check
\* without having recorded a timestamp, together with the recorded timestamps
\* of the window, never outnumber the slots: no free slot admits two callers.
C2_NoSharedSlot ==
    Cardinality(PendingAdmissions)
        + Len(PruneTimestamps(requestTimestamps, DateNow)) <= requestsPerMinute

\* C3: in a resolved call a batch that failed maxRetries times has none of its
\* ZIPs in the result, every entry of a fulfilled sibling is in the result, and
\* a call with batches never rejects.
C3_PartialSuccess ==
    \A c \in CallIds :
        /\ calls[c].pc = "rejected" =>
               /\ calls[c].batches = <<>>
               /\ calls[c].zipCodes = <<>> \/ calls[c].variables = <<>>
        /\ calls[c].pc = "resolved" =>
               \A b \in DOMAIN calls[c].batches :
                   LET batch == calls[c].batches[b]
                   IN  /\ Settled(batch)
                       /\ batch.pc = "rejected" =>
                              Range(batch.zips) \cap DOMAIN calls[c].results = {}
                       /\ batch.pc = "fulfilled" =>
                              \A z \in DOMAIN batch.value :
                                  /\ z \in DOMAIN calls[c].results
                                  /\ calls[c].results[z] = batch.value[z]

\* C3 witness: a resolved call with a batch that failed maxRetries times and a
\* sibling that returned an entry.
C3_Witness ==
    \E c \in CallIds :
        /\ calls[c].pc = "resolved"
        /\ \E b1, b2 \in DOMAIN calls[c].batches :
               /\ calls[c].batches[b1].pc = "rejected"
               /\ calls[c].batches[b1].failures = maxRetries
               /\ calls[c].batches[b2].pc = "fulfilled"
               /\ DOMAIN calls[c].batches[b2].value # {}

\* The store st holds an unexpired, readable entry for (zip, variables) at now
FreshIn(st, zip, variables, now) ==
    LET cached == getItem(st, getCacheKey(zip, variables))
    IN  /\ cached # NULL
        /\ cached.kind = "entry"
        /\ now <= cached.expiry

EntryIn(st, zip, variables) == getItem(st, getCacheKey(zip, variables))

\* The requested ZIPs that had an unexpired entry when call c checked the cache
HitsOf(c) ==
    {z \in Range(calls[c].zipCodes) :
        FreshIn(calls[c].checkedStore, z, calls[c].variables, calls[c].checkedAt)}

\* C4: a ZIP with an unexpired entry at the cache check is answered with that
\* entry and is in no batch; when every ZIP hits, the call is resolved without
\* any batch, admission or request.
C4_CacheFirst ==
    \A c \in CallIds :
        calls[c].pc \in {"awaiting", "resolved"} =>
            LET hits == HitsOf(c)
            IN  /\ \A z \in hits :
                       /\ \A b \in DOMAIN calls[c].batches :
                              z \notin Range(calls[c].batches[b].zips)
                       /\ z \in DOMAIN calls[c].results
                       /\ LET e == EntryIn(calls[c].checkedStore, z, calls[c].variables)
                          IN  calls[c].results[z] = [data |-> e.data, metadata |-> e.metadata]
                /\ hits = Range(calls[c].zipCodes) =>
                       /\ calls[c].pc = "resolved"
                       /\ calls[c].batches = <<>>
                       /\ BatchRequests = {} /\ requestTimestamps = <<>>
                       /\ Len(issued) <= Len(validations)
                       /\ Range(issued) \subseteq Range(validations)

\* C4 witness: a call answered one ZIP from the cache while it sent the others
\* to the provider.
C4_Witness ==
    \E c \in CallIds :
        /\ HitsOf(c) # {}
        /\ \E r \in network : r.call = c

\* C4 witness of the second half: a call resolved from the cache alone.
C4_WitnessAllHit ==
    \E c \in CallIds :
        /\ calls[c].pc = "resolved"
        /\ calls[c].zipCodes # <<>>
        /\ HitsOf(c) = Range(calls[c].zipCodes)

\* C5: a batch that succeeds on attempt k after k-1 failures has invoked the
\* network k times, k <= maxRetries, and fulfils with the value of that last
\* answer; a batch is never given up while attempts remain.
C5_RetryUntilSuccess ==
    \A cb \in Batches :
        LET batch == BatchOf(cb)
        IN  /\ batch.pc = "fulfilled" =>
                /\ batch.sends = batch.failures + 1
                /\ batch.sends = batch.attempt
                /\ batch.sends <= maxRetries
                /\ batch.lastOutcome.ok
                /\ batch.value = batch.lastOutcome.value
            /\ batch.failures < maxRetries => batch.pc # "rejected"

\* C5 witness: a batch succeeded on its last allowed attempt.
C5_Witness ==
    \E cb \in Batches :
        /\ BatchOf(cb).pc = "fulfilled"
        /\ BatchOf(cb).failures = maxRetries - 1
        /\ BatchOf(cb).sends = maxRetries

\* C6: the network is invoked at most maxRetries times for a batch; a batch
\* whose attempts all failed has invoked it exactly maxRetries times and
\* rejects with the failure of its last attempt.
C6_BoundedRetries ==
    \A cb \in Batches :
        LET batch == BatchOf(cb)
        IN  /\ batch.sends <= maxRetries
            /\ batch.failures = maxRetries =>
                   /\ batch.pc = "rejected"
                   /\ batch.sends = maxRetries
                   /\ batch.reason = batch.lastOutcome.error
            /\ batch.pc = "rejected" => batch.failures = maxRetries

\* C6 witness: a batch rejected after maxRetries failures whose last failure
\* differs from an earlier one.
C6_Witness ==
    \E cb \in Batches :
        /\ BatchOf(cb).pc = "rejected"
        /\ BatchOf(cb).sends = maxRetries
        /\ BatchOf(cb).reason = AbortError

\* C7: every network invocation of a batch follows an enforceRateLimit pass of
\* its own: the passes completed equal the requests sent, plus the one pass
\* whose request is about to be sent.
C7_AdmissionPerRequest ==
    \A cb \in Batches :
        LET batch == BatchOf(cb)
        IN  batch.admits = batch.sends + (IF batch.pc = "admitted" THEN 1 ELSE 0)

\* C7 witness: a retry is in flight after its own admission.
C7_Witness ==
    \E cb \in Batches :
        /\ BatchOf(cb).pc = "inflight"
        /\ BatchOf(cb).sends = 2
        /\ BatchOf(cb).admits = 2

\* C8: a batch has at most one outstanding request, the one of its current
\* attempt, sent after all earlier attempts failed.
C8_OneOutstandingPerBatch ==
    /\ \A r1, r2 \in BatchRequests :
           r1.call = r2.call /\ r1.batch = r2.batch => r1 = r2
    /\ \A r \in BatchRequests :
           LET batch == calls[r.call].batches[r.batch]
           IN  /\ batch.pc = "inflight"
               /\ r.attempt = batch.attempt
               /\ batch.failures = r.attempt - 1
    /\ \A cb \in Batches :
           BatchOf(cb).pc = "inflight" =>
               \E r \in network : r.call = cb[1] /\ r.batch = cb[2]

\* C8 witness: two batches of one call have requests outstanding at once, one
\* of them a retry.
C8_Witness ==
    \E r1, r2 \in network :
        /\ r1.call = r2.call
        /\ r1.batch # r2.batch
        /\ r1.attempt > 1

\* ------------------------------------------------------------------------
\* The cache store on its own: direct calls of cacheData and getFromCache
\* ------------------------------------------------------------------------
\* What localStorage may hold when the service is constructed at time now
CachePriorStorages(now) ==
    {<<>>,
     <<OtherItem(QuotaChars)>>,
     <<OtherItem(QuotaChars - 2 * EntryChars),
       CorruptEntry("10001", <<VarX>>),
       PriorEntry("10002", <<VarX, VarY>>, now - cacheDuration)>>}

InitCache ==
    /\ options = DefaultOptions
    /\ clock = 0
    /\ ticks = 0
    /\ timeOrigin = EpochOrigin
    /\ storage \in {cleanCache(prior, timeOrigin) : prior \in CachePriorStorages(timeOrigin)}
    /\ cacheTimers = <<>>
    /\ requestTimestamps = <<>>
    /\ calls = [c \in CallIds |-> IdleCall]
    /\ microtasks = <<>>
    /\ network = {}
    /\ issued = <<>>
    /\ lastOp = NoOp
    /\ validations = <<>>
    /\ index = NewIndex

\* The time steps of the cache store: the clock's unit and the cache duration
CacheSteps == {Ms(100), cacheDuration}

\* The (zip, variables) pairs callers read and write
CacheRequests ==
    {<<"10001", <<VarX>>>>, <<"10001", <<VarY, VarX>>>>, <<"10002", <<VarY, VarX>>>>}

\* The parsed results callers cache
CacheData(variables) ==
    {[data     |-> [k \in Range(variables) |-> ParseCell(raw)],
      metadata |-> [fetchedAt |-> DateNow, source |-> "api"]] : raw \in {"42"}}

NextCache ==
    \/ \E q \in CacheRequests :
           \E data \in CacheData(q[2]) : CallCacheData(q[1], q[2], data)
    \/ \E q \in CacheRequests : CallGetFromCache(q[1], q[2])
    \/ CacheRetry
    \/ ClearErrorLog
    \/ \E d \in CacheSteps : Advance(d)

SpecCache == InitCache /\ [][NextCache]_vars

\* An item of the store that is a readable cache entry
IsCacheEntry(item) == StartsWithPrefix(item.key) /\ item.value.kind = "entry"

\* C9 as stated: an entry written by cacheData at time t is returned at every
\* time <= t + 30 days, so no step removes from the store a cache entry that
\* has not expired by the time the step ends.
C9_KeptUntilExpiry ==
    [][\A i \in DOMAIN storage :
           (IsCacheEntry(storage[i]) /\ DateNow' <= storage[i].value.expiry)
               => HasKey(storage', storage[i].key)]_vars

\* C9, amended: an entry written by cacheData at time t that is still in the
\* store is returned by getFromCache for the same ZIP and variable set at
\* every time <= t + 30 days and is a miss at every later time. A successful
\* write at time t leaves under its key an entry with expiry t + cacheDuration;
\* every stored entry has expiry = cachedAt + cacheDuration; a read of a key
\* that held an entry returns that entry's data and metadata exactly when the
\* time of the read is <= the entry's write time + cacheDuration, and a miss
\* otherwise.
C9_ExpiryAfterThirtyDays ==
    /\ \A i \in DOMAIN storage :
           IsCacheEntry(storage[i]) =>
               storage[i].value.expiry = storage[i].value.metadata.cachedAt + cacheDuration
    /\ (lastOp.op = "write" /\ lastOp.ok) =>
           LET entry == getItem(storage, getCacheKey(lastOp.zip, lastOp.variables))
           IN  /\ entry # NULL
               /\ entry.kind = "entry"
               /\ entry.metadata.cachedAt = lastOp.at
               /\ entry.expiry = lastOp.at + cacheDuration
    /\ (lastOp.op = "read" /\ lastOp.before # NULL /\ lastOp.before.kind = "entry") =>
           LET writtenAt == lastOp.before.metadata.cachedAt
           IN  IF lastOp.at <= writtenAt + cacheDuration
               THEN lastOp.value = [data     |-> lastOp.before.data,
                                    metadata |-> lastOp.before.metadata]
               ELSE lastOp.value = NULL

\* A read, exactly cacheDuration after this session wrote the entry, that
\* returns it
C9_Witness ==
    /\ lastOp.op = "read"
    /\ lastOp.before # NULL
    /\ lastOp.before.kind = "entry"
    /\ lastOp.before.metadata.cachedAt > timeOrigin
    /\ lastOp.at = lastOp.before.metadata.cachedAt + cacheDuration
    /\ lastOp.value # NULL

\* C10: after a quota failure cacheData evicts and retries the write exactly
\* once more; when the retry fails too, no third write attempt is scheduled.
C10_RetryOnce ==
    \A i \in DOMAIN cacheTimers : cacheTimers[i].tries <= 2

\* ------------------------------------------------------------------------
\* The maintenance operations of the cache store: cleanCache, clearCache,
\* clearOldestCacheEntries and getFromCache on stores of every layout
\* ------------------------------------------------------------------------
\* The items an earlier session may have left at time now: data of other
\* code, an unreadable entry, an entry that has expired, two that are at
\* their expiry time and a recent one
PriorItems(now) ==
    {OtherItem(EntryChars),
     CorruptEntry("10003", <<VarY>>),
     PriorEntry("10003", <<VarX>>, now - cacheDuration - 1),
     PriorEntry("10001", <<VarX>>, now - cacheDuration),
     PriorEntry("10002", <<VarX>>, now - cacheDuration),
     PriorEntry("10002", <<VarX, VarY>>, now - 1)}

\* The stores of at most n of these items, in every order
RECURSIVE StoresOf(_, _)
StoresOf(items, n) ==
    IF n = 0 THEN {<<>>}
    ELSE LET shorter == StoresOf(items, n - 1)
         IN  shorter \cup {Append(st, item) : st \in shorter, item \in items}

SweepPriorStorages(now) ==
    {st \in StoresOf(PriorItems(now), StorageQuota) :
        \A i, j \in DOMAIN st : i # j => st[i].key # st[j].key}

InitSweep ==
    /\ options = DefaultOptions
    /\ clock = 0
    /\ ticks = 0
    /\ timeOrigin = EpochOrigin
    /\ storage \in {cleanCache(prior, timeOrigin) : prior \in SweepPriorStorages(timeOrigin)}
    /\ cacheTimers = <<>>
    /\ requestTimestamps = <<>>
    /\ calls = [c \in CallIds |-> IdleCall]
    /\ microtasks = <<>>
    /\ network = {}
    /\ issued = <<>>
    /\ lastOp = NoOp
    /\ validations = <<>>
    /\ index = NewIndex

\* A caller invokes cleanCache()
CallCleanCache ==
    /\ storage' = cleanCache(storage, DateNow)
    /\ lastOp' = [op |-> "clean", at |-> DateNow]
    /\ UNCHANGED <<index, options, validations, clock, ticks, timeOrigin, cacheTimers, requestTimestamps, calls,
                   microtasks, network, issued>>

\* A caller invokes clearCache()
CallClearCache ==
    /\ LET done == clearCache(storage)
       IN  /\ storage' = done.storage
           /\ lastOp' = [op |-> "clear", at |-> DateNow, cleared |-> done.cleared,
                         had |-> Len(storage)]
    /\ UNCHANGED <<index, options, validations, clock, ticks, timeOrigin, cacheTimers, requestTimestamps, calls,
                   microtasks, network, issued>>

\* A caller invokes clearOldestCacheEntries(count)
CallClearOldest(count) ==
    /\ storage' = clearOldestCacheEntries(storage, count)
    /\ lastOp' = [op |-> "evict", at |-> DateNow, count |-> count]
    /\ UNCHANGED <<index, options, validations, clock, ticks, timeOrigin, cacheTimers, requestTimestamps, calls,
                   microtasks, network, issued>>

\* The counts clearOldestCacheEntries is called with
EvictCounts == {1, EvictOnQuota}

\* The (zip, variables) pairs read
SweepRequests ==
    {<<"10001", <<VarX>>>>, <<"10002", <<VarY, VarX>>>>, <<"10003", <<VarY>>>>}

NextSweep ==
    \/ CallCleanCache
    \/ CallClearCache
    \/ ClearErrorLog
    \/ \E count \in EvictCounts : CallClearOldest(count)
    \/ \E q \in SweepRequests : CallGetFromCache(q[1], q[2])
    \/ \E d \in CacheSteps : Advance(d)

SpecSweep == InitSweep /\ [][NextSweep]_vars

\* The items of a store that are not under the cache prefix
Unrelated(st) == SelectSeq(st, LAMBDA item : ~StartsWithPrefix(item.key))

\* An item cleanCache is to remove at time now: under the prefix, and
\* unreadable or expired
Sweepable(item, now) ==
    /\ StartsWithPrefix(item.key)
    /\ \/ ParseThrows(item.value)
       \/ item.value.expiry # 0 /\ now > item.value.expiry

\* C11: after cleanCache returns, the store holds no entry under the prefix
\* that was expired at the time of the sweep or that fails to deserialize.
C11_SweepRemovesAll ==
    lastOp.op = "clean" =>
        \A i \in DOMAIN storage : ~Sweepable(storage[i], lastOp.at)

\* C12: a second cleanCache right after the first, with no write and no clock
\* change in between, leaves the store as the first left it.
C12_SweepIdempotent ==
    [][(lastOp.op = "clean" /\ lastOp' = lastOp) => storage' = storage]_vars

\* C13: after clearCache returns, no key under the cache prefix remains and
\* the count returned equals the number of entries removed.
C13_ClearRemovesAll ==
    lastOp.op = "clear" =>
        /\ \A i \in DOMAIN storage : ~StartsWithPrefix(storage[i].key)
        /\ lastOp.cleared = lastOp.had - Len(storage)

\* C13 witness: clearCache removed several entries and left other data.
C13_Witness ==
    /\ lastOp.op = "clear"
    /\ lastOp.cleared >= 2
    /\ storage # <<>>

\* C14: cleanCache, clearCache, clearOldestCacheEntries and getFromCache never
\* remove or modify an item that is not under the cache prefix.
C14_UnrelatedUntouched ==
    [][Unrelated(storage') = Unrelated(storage)]_vars

\* C14 witness: a maintenance operation removed cache entries from a store
\* that holds other data.
C14_Witness ==
    /\ lastOp.op \in {"clean", "clear", "evict", "read"}
    /\ Unrelated(storage) # <<>>
    /\ \/ lastOp.op = "clear" /\ lastOp.cleared > 0
       \/ lastOp.op = "read" /\ lastOp.before # NULL /\ lastOp.value = NULL

\* The items of a store that are under the cache prefix
CacheItems(st) == SelectSeq(st, LAMBDA item : StartsWithPrefix(item.key))

\* C16: fetchDataForZips with an empty ZIP list or an empty variable list
\* rejects in the step of the call itself, and that step probes and writes no
\* cache entry, passes no rate-limit admission, sends no request and creates
\* no batch that could retry.
C16_RejectsEmptyInput ==
    [][\A c \in CallIds :
           (/\ calls[c].pc = "idle"
            /\ calls'[c].pc # "idle"
            /\ calls'[c].zipCodes = <<>> \/ calls'[c].variables = <<>>)
           => /\ calls'[c].pc = "rejected"
              /\ calls'[c].batches = <<>>
              /\ calls'[c].results = IdleCall.results
              /\ CacheItems(storage') = CacheItems(storage)
              /\ cacheTimers' = cacheTimers
              /\ requestTimestamps' = requestTimestamps
              /\ microtasks' = microtasks
              /\ network' = network
              /\ issued' = issued]_vars

\* C16 witness: a call with ZIPs and an empty variable list was rejected.
C16_Witness ==
    \E c \in CallIds :
        /\ calls[c].pc = "rejected"
        /\ calls[c].zipCodes # <<>>
        /\ calls[c].variables = <<>>

\* C15: a batch the provider answered with an unauthorized/forbidden status is
\* not retried: it has made exactly one request and is rejected at once,
\* without a backoff sleep.
C15_NoRetryOnForbidden ==
    \A cb \in Batches :
        BatchOf(cb).lastError = "HTTP 403" =>
            /\ BatchOf(cb).pc = "rejected"
            /\ BatchOf(cb).sends = 1

\* ------------------------------------------------------------------------
\* The retry loop under every maxRetries option, against a provider that
\* fails every request
\* ------------------------------------------------------------------------
\* new ACSAPIService(apiKey, {maxRetries: n})
RetryOptions ==
    {[maxRetries |-> n, cacheVersion |-> DefaultCacheVersion] : n \in 1..MaxRetriesOption}

InitBackoff ==
    /\ options \in RetryOptions
    /\ clock = 0
    /\ ticks = 0
    /\ timeOrigin \in TimeOrigins
    /\ storage \in {cleanCache(prior, timeOrigin) : prior \in PriorStorages(timeOrigin)}
    /\ cacheTimers = <<>>
    /\ requestTimestamps = <<>>
    /\ calls = [c \in CallIds |-> IdleCall]
    /\ microtasks = <<>>
    /\ network = {}
    /\ issued = <<>>
    /\ lastOp = NoOp
    /\ validations = <<>>
    /\ index = NewIndex

\* The timer of the sleep() of batch b fires: the clock is at the time the
\* sleep ends
AwaitSleep(c, b) ==
    /\ microtasks = <<>>
    /\ b \in DOMAIN calls[c].batches
    /\ calls[c].batches[b].pc \in {"backoff", "rateWait"}
    /\ PerformanceNow < calls[c].batches[b].wakeAt
    /\ clock' = calls[c].batches[b].wakeAt
    /\ UNCHANGED <<index, options, validations, ticks, timeOrigin, storage, cacheTimers, requestTimestamps,
                   calls, microtasks, network, issued, lastOp>>

NextBackoff ==
    \/ \E c \in CallIds : FetchDataForZips(c, <<"10001">>, <<VarY, VarX>>)
    \/ SendRequest
    \/ \E r \in network, status \in Errors : ResponseArrives(r, status)
    \/ \E r \in network, error \in Errors : RespondError(r, error)
    \/ \E c \in CallIds, b \in 1..Cardinality(Zips) : AwaitSleep(c, b)
    \/ \E c \in CallIds, b \in 1..Cardinality(Zips) : WakeBatch(c, b)
    \/ MergeResults

SpecBackoff == InitBackoff /\ [][NextBackoff]_vars

\* C17: a batch that starts a backoff sleep before attempt n >= 2 sleeps for
\* min(cap, base * 2^(n-1)) with the request timeout as the cap, so never
\* longer than the cap; no batch sleeps for backoff before attempt 1.
C17_CappedBackoff ==
    [][\A cb \in Batches :
           LET before == BatchOf(cb)
               after  == calls'[cb[1]].batches[cb[2]]
           IN  /\ after.pc = "backoff" => after.attempt >= 2
               /\ (before.pc # "backoff" /\ after.pc = "backoff") =>
                      after.wakeAt - PerformanceNow' =
                          Min(timeout, BackoffBase * Pow2(after.attempt - 1))]_vars

\* The timestamps a prune-and-count check at time now counts
CountedAt(ts, now) == Cardinality({i \in DOMAIN ts : ts[i] > now - RateWindow})

\* C18: a batch that wakes from the wait of enforceRateLimit runs the
\* prune-and-count check again: it is admitted only when that check counts
\* fewer timestamps than the ceiling, and sleeps again otherwise; it never goes
\* from the wait straight to its request.
C18_RecheckAfterWait ==
    [][\A cb \in Batches :
           LET before == BatchOf(cb)
               after  == calls'[cb[1]].batches[cb[2]]
           IN  (before.pc = "rateWait" /\ after # before) =>
                   IF CountedAt(requestTimestamps, DateNow) < requestsPerMinute
                   THEN /\ after.pc = "admitted"
                        /\ after.admits = before.admits + 1
                   ELSE /\ after.pc = "rateWait"
                        /\ after.wakeAt > PerformanceNow
                        /\ after.sends = before.sends]_vars

\* C18 witness: a batch woke from the wait, found the window full again
\* because another batch had been admitted meanwhile, and waits once more.
C18_Witness ==
    \E cb \in Batches :
        /\ BatchOf(cb).pc = "rateWait"
        /\ BatchOf(cb).rechecks >= 2

\* C19: once a call has returned, every entry of a batch that
\* succeeded is in the result and in the cache, so that getFromCache for its
\* ZIP and the variable set is a hit carrying the same values.
C19_FetchedIsCached ==
    \A c \in CallIds :
        calls[c].pc = "resolved" =>
            \A b \in DOMAIN calls[c].batches :
                calls[c].batches[b].pc = "fulfilled" =>
                    \A z \in DOMAIN calls[c].batches[b].value :
                        LET entry == calls[c].batches[b].value[z]
                            hit   == getFromCache(storage, z, calls[c].variables,
                                                  DateNow).value
                        IN  /\ z \in DOMAIN calls[c].results
                            /\ calls[c].results[z] = entry
                            /\ hit # NULL
                            /\ hit.data = entry.data

\* C20: a response that lacks a requested ZIP fulfils the batch without a
\* retry; the ZIP is reported as missing, it is in no result, and the entries
\* of the other ZIPs of the batch are returned.
C20_MissingIsNoFailure ==
    \A c \in CallIds :
        \A b \in DOMAIN calls[c].batches :
            LET batch == calls[c].batches[b]
            IN  batch.lastOutcome.ok =>
                    /\ batch.pc = "fulfilled"
                    /\ batch.sends = batch.failures + 1
                    /\ Range(batch.missing) = Range(batch.zips) \ DOMAIN batch.value
                    /\ calls[c].pc = "resolved" =>
                           /\ Range(batch.missing) \cap DOMAIN calls[c].results = {}
                           /\ \A z \in DOMAIN batch.value :
                                  /\ z \in DOMAIN calls[c].results
                                  /\ calls[c].results[z] = batch.value[z]

\* C20 witness: a call returned the entry of one ZIP of a batch whose response
\* lacked the other.
C20_Witness ==
    \E c \in CallIds :
        /\ calls[c].pc = "resolved"
        /\ \E b \in DOMAIN calls[c].batches :
               /\ calls[c].batches[b].pc = "fulfilled"
               /\ calls[c].batches[b].missing # <<>>
               /\ DOMAIN calls[c].batches[b].value # {}

\* return Object.fromEntries(results): what a resolved call hands its caller
ReturnValue(c) == calls[c].results

\* What the returned object says of a requested ZIP
OutcomeFor(c, zip) == IF zip \in DOMAIN ReturnValue(c) THEN "entry" ELSE "absent"

\* C21: the outcome of a call tells a ZIP of a batch that exhausted its
\* retries from a ZIP the provider did not return.
C21_FailuresDistinct ==
    \A c \in CallIds :
        calls[c].pc = "resolved" =>
            \A b1, b2 \in DOMAIN calls[c].batches :
                (calls[c].batches[b1].pc = "rejected" /\ calls[c].batches[b2].pc = "fulfilled") =>
                    \A z1 \in Range(calls[c].batches[b1].zips),
                       z2 \in Range(calls[c].batches[b2].missing) :
                        OutcomeFor(c, z1) # OutcomeFor(c, z2)

\* C30: a getFromCache call on a key whose stored value cannot be parsed
\* returns a miss and leaves the store without that key.
C30_CorruptReadDeletes ==
    (lastOp.op = "read" /\ lastOp.before # NULL) =>
        (ParseThrows(lastOp.before) =>
            /\ lastOp.value = NULL
            /\ ~HasKey(storage, getCacheKey(lastOp.zip, lastOp.variables)))

\* ------------------------------------------------------------------------
\* ZIPCodeIndex: values, strings and maps
\* ------------------------------------------------------------------------
\* Where a number is expected: a number, the null of JSON, the undefined of
\* a field a record lacks, and NaN
Num(n) == [t |-> "num", v |-> n]

JSNull == [t |-> "null", v |-> 0]

Undefined == [t |-> "undefined", v |-> 0]

NaN == [t |-> "nan", v |-> 0]

\* Where a string is expected: a string with its characters, null, undefined
Str(chars) == [t |-> "str", s |-> chars]

NullString == [t |-> "null", s |-> <<>>]

NoString == [t |-> "undefined", s |-> <<>>]

\* if (value): a string with characters in it
Truthy(value) == value.t = "str" /\ value.s # <<>>

\* The character '0' and the length ZIP strings are padded to
ZeroChar == 48

ZipLength == 5

\* String.prototype.padStart(targetLength, padChar)
padStart(str, targetLength, padChar) ==
    IF Len(str) >= targetLength THEN str
    ELSE [i \in 1..(targetLength - Len(str)) |-> padChar] \o str

\* String.prototype.toUpperCase and toLowerCase on the letters A-Z, a-z
toUpperCase(str) ==
    [i \in DOMAIN str |-> IF str[i] \in 97..122 THEN str[i] - 32 ELSE str[i]]

toLowerCase(str) ==
    [i \in DOMAIN str |-> IF str[i] \in 65..90 THEN str[i] + 32 ELSE str[i]]

\* String.prototype.includes(searchString)
includes(str, searchString) ==
    \E i \in 0..(Len(str) - Len(searchString)) :
        SubSeq(str, i + 1, i + Len(searchString)) = searchString

\* String(value) inside a template literal
TemplateString(value) ==
    IF value.t = "undefined" THEN <<117, 110, 100, 101, 102, 105, 110, 101, 100>>
    ELSE IF value.t = "null" THEN <<110, 117, 108, 108>>
    ELSE value.s

\* String.prototype.split(','): the parts between the commas
RECURSIVE SplitFrom(_, _)
SplitFrom(str, part) ==
    IF str = <<>> THEN <<part>>
    ELSE IF Head(str) = Comma THEN <<part>> \o SplitFrom(Tail(str), <<>>)
    ELSE SplitFrom(Tail(str), Append(part, Head(str)))

split(str) == SplitFrom(str, <<>>)

\* A Map, and a Set, keep their keys in insertion order: a Map is the sequence
\* of its [key, value] pairs, a Set the sequence of its members
MapHas(map, key) == \E i \in DOMAIN map : map[i].key = key

MapGet(map, key) ==
    IF MapHas(map, key)
    THEN map[CHOOSE i \in DOMAIN map : map[i].key = key].value
    ELSE Undefined

\* Mutant of MapSet: the value of a key that is present is kept
MapSet_KeepFirst(map, key, value) ==
    IF MapHas(map, key) THEN map ELSE Append(map, [key |-> key, value |-> value])

\* Map.prototype.set(key, value)
MapSet(map, key, value) ==
    IF MapHas(map, key)
    THEN [i \in DOMAIN map |->
             IF map[i].key = key THEN [key |-> key, value |-> value] ELSE map[i]]
    ELSE Append(map, [key |-> key, value |-> value])

\* Set.prototype.add(member)
SetAdd(set, member) == IF member \in Range(set) THEN set ELSE Append(set, member)

\* map.get(key).add(member), after map.set(key, new Set()) for a new key
IndexAdd(map, key, member) ==
    MapSet(map, key, SetAdd(IF MapHas(map, key) THEN MapGet(map, key) ELSE <<>>, member))

\* ------------------------------------------------------------------------
\* ZIPCodeIndex: loading and indexing
\* ------------------------------------------------------------------------
\* Coordinates are whole numbers of 1/10000 degree
DegreeUnits == 10000

\* const GRID_SIZE = 0.5
GRID_SIZE == DegreeUnits \div 2

\* indexRecord(record) on the maps of idx
indexRecord(idx, record) ==
    LET cityKey == toLowerCase(record.city.s) \o <<Comma>> \o TemplateString(record.state_id)
    IN  [idx EXCEPT
            !.zips = MapSet(@, record.zip, record),
            !.stateIndex = IF Truthy(record.state_id)
                           THEN IndexAdd(@, record.state_id.s, record.zip) ELSE @,
            !.cityIndex = IF Truthy(record.city)
                          THEN IndexAdd(@, cityKey, record.zip) ELSE @,
            !.countyIndex = IF Truthy(record.county_fips)
                            THEN IndexAdd(@, record.county_fips.s, record.zip) ELSE @]

\* data.forEach(record => this.indexRecord(record))
RECURSIVE IndexRecords(_, _)
IndexRecords(idx, data) ==
    IF data = <<>> THEN idx
    ELSE IndexRecords(indexRecord(idx, Head(data)), Tail(data))

\* Math.floor(coordinate / gridSize); NaN for a coordinate that is undefined,
\* and null counts as 0
GridOf(coordinate, gridSize) ==
    IF coordinate.t = "num" THEN Num(coordinate.v \div gridSize)
    ELSE IF coordinate.t = "null" THEN Num(0)
    ELSE NaN

\* getGridKey(lat, lng, gridSize): the pair that `${latGrid},${lngGrid}` spells
getGridKey(lat, lng, gridSize) == <<GridOf(lat, gridSize), GridOf(lng, gridSize)>>

\* One round of the loop of buildSpatialIndex
AddStub(spatialIndex, record) ==
    IF record.lat # JSNull /\ record.lng # JSNull
    THEN LET gridKey == getGridKey(record.lat, record.lng, GRID_SIZE)
             cells   == IF MapHas(spatialIndex, gridKey)
                        THEN MapGet(spatialIndex, gridKey) ELSE <<>>
         IN  MapSet(spatialIndex, gridKey,
                    Append(cells, [zip |-> record.zip, lat |-> record.lat,
                                   lng |-> record.lng]))
    ELSE spatialIndex

RECURSIVE AddStubs(_, _)
AddStubs(spatialIndex, entries) ==
    IF entries = <<>> THEN spatialIndex
    ELSE AddStubs(AddStub(spatialIndex, Head(entries).value), Tail(entries))

\* buildSpatialIndex(): every record of this.zips is pushed onto its cell
buildSpatialIndex(idx) == [idx EXCEPT !.spatialIndex = AddStubs(@, idx.zips)]

\* loadFromJSON(jsonUrl) once the response is parsed into data, the records in
\* the order forEach visits them
loadFromJSON(idx, data) ==
    LET indexed == IndexRecords(idx, data)
    IN  buildSpatialIndex([indexed EXCEPT !.loaded = TRUE,
                                          !.totalRecords = Len(indexed.zips)])

\* clear()
clear(idx) == NewIndex

\* ------------------------------------------------------------------------
\* ZIPCodeIndex: queries
\* ------------------------------------------------------------------------
\* What get ends with when it calls padStart on a ZIP that is no string
TypeError == [t |-> "TypeError", v |-> 0]

\* How a query ends: it returns an array, or get threw a TypeError in it
Returns(items) == [threw |-> FALSE, items |-> items]

Throws == [threw |-> TRUE, items |-> <<>>]

\* Mutant of get: the ZIP is looked up as it is given
get_Unpadded(idx, zip) ==
    IF zip.t # "str" THEN TypeError
    ELSE IF MapHas(idx.zips, zip) THEN MapGet(idx.zips, zip) ELSE JSNull

\* get(zip): this.zips.get(zip.padStart(5, '0')) || null
get(idx, zip) ==
    IF zip.t # "str" THEN TypeError
    ELSE LET key == Str(padStart(zip.s, ZipLength, ZeroChar))
         IN  IF MapHas(idx.zips, key) THEN MapGet(idx.zips, key) ELSE JSNull

\* for (const zip of zipSet) { results.push(this.get(zip));
\*                             if (results.length >= limit) break; }
RECURSIVE PushRecords(_, _, _, _)
PushRecords(idx, zipSet, results, limit) ==
    IF zipSet = <<>> THEN Returns(results)
    ELSE LET record == get(idx, Head(zipSet))
             pushed == Append(results, record)
         IN  IF record = TypeError THEN Throws
             ELSE IF Len(pushed) >= limit THEN Returns(pushed)
             ELSE PushRecords(idx, Tail(zipSet), pushed, limit)

\* getByState(stateId, limit)
getByState(idx, stateId, limit) ==
    LET key    == toUpperCase(stateId.s)
        zipSet == IF MapHas(idx.stateIndex, key) THEN MapGet(idx.stateIndex, key) ELSE <<>>
    IN  PushRecords(idx, zipSet, <<>>, limit)

\* getByCounty(countyFips, limit)
getByCounty(idx, countyFips, limit) ==
    LET zipSet == IF MapHas(idx.countyIndex, countyFips)
                  THEN MapGet(idx.countyIndex, countyFips) ELSE <<>>
    IN  PushRecords(idx, zipSet, <<>>, limit)

\* The loop of searchByCity over the entries of this.cityIndex
RECURSIVE SearchCities(_, _, _, _, _, _)
SearchCities(idx, entries, searchTerm, stateId, results, limit) ==
    IF entries = <<>> THEN Returns(results)
    ELSE LET parts   == split(Head(entries).key)
             city    == parts[1]
             state   == IF Len(parts) >= 2 THEN parts[2] ELSE <<>>
             matches == /\ includes(city, searchTerm)
                        /\ ~Truthy(stateId) \/ state = toUpperCase(stateId.s)
             pushed  == IF matches
                        THEN PushRecords(idx, Head(entries).value, results, limit)
                        ELSE Returns(results)
         IN  IF pushed.threw THEN Throws
             ELSE IF Len(pushed.items) >= limit THEN pushed
             ELSE SearchCities(idx, Tail(entries), searchTerm, stateId, pushed.items, limit)

\* searchByCity(cityName, stateId, limit)
searchByCity(idx, cityName, stateId, limit) ==
    SearchCities(idx, idx.cityIndex, toLowerCase(cityName), stateId, <<>>, limit)

\* value >= low && value <= high, where null counts as 0 and undefined as NaN
Between(value, low, high) ==
    /\ value.t \in {"num", "null"}
    /\ value.v >= low
    /\ value.v <= high

\* searchByBoundingBox(bounds, limit)
RECURSIVE SearchBox(_, _, _, _)
SearchBox(entries, bounds, results, limit) ==
    IF entries = <<>> THEN Returns(results)
    ELSE LET record == Head(entries).value
             inside == /\ Between(record.lat, bounds[1], bounds[3])
                       /\ Between(record.lng, bounds[2], bounds[4])
             pushed == IF inside THEN Append(results, record) ELSE results
         IN  IF inside /\ Len(pushed) >= limit THEN Returns(pushed)
             ELSE SearchBox(Tail(entries), bounds, pushed, limit)

searchByBoundingBox(idx, bounds, limit) == SearchBox(idx.zips, bounds, <<>>, limit)

\* ------------------------------------------------------------------------
\* ZIPCodeIndex: searchByRadius
\* ------------------------------------------------------------------------
\* The places of the model, as <<lat, lng>>: 40.75 N 73.99 W, a place 0.01
\* degree north of it, one 0.02 degree west of it in the next grid column,
\* and 34 N 118 W
PlaceA == <<407500, -739900>>

PlaceB == <<407600, -739900>>

PlaceC == <<407500, -740100>>

PlaceLA == <<340000, -1180000>>

\* 111.32 km per degree, in hundredths of a km
KmPerDegree == 11132

\* Math.cos(lat * Math.PI / 180) in units of 1/100000, for the latitudes of
\* the places
Cos5(lat) ==
    CASE lat = 407500 -> 75756
      [] lat = 407600 -> 75745
      [] lat = 340000 -> 82903

\* earthRadius * 2 * Math.atan2(Math.sqrt(a), Math.sqrt(1 - a)) in whole
\* metres, for the places
Haversine(lat, lng, cellLat, cellLng) ==
    LET pair == {<<lat, lng>>, <<cellLat, cellLng>>}
    IN  CASE Cardinality(pair) = 1      -> 0
          [] pair = {PlaceA, PlaceB}    -> 1111
          [] pair = {PlaceA, PlaceC}    -> 1684
          [] pair = {PlaceB, PlaceC}    -> 2018
          [] pair = {PlaceA, PlaceLA}   -> 3918714
          [] pair = {PlaceB, PlaceLA}   -> 3918647
          [] pair = {PlaceC, PlaceLA}   -> 3917032

\* radiusKm / 111.32 and radiusKm / (111.32 * Math.cos(lat * Math.PI / 180)),
\* in coordinate units, rounded down
LatDelta(radiusKm) == (radiusKm * 100 * DegreeUnits) \div KmPerDegree

LngDelta(radiusKm, lat) ==
    (radiusKm * 10000 * DegreeUnits) \div ((KmPerDegree * Cos5(lat)) \div 1000)

\* The stubs of the cells (latGrid, lngFrom..lngTo), then of the rows above
RECURSIVE CellsOfRow(_, _, _, _)
CellsOfRow(spatialIndex, latGrid, lngFrom, lngTo) ==
    IF lngFrom > lngTo THEN <<>>
    ELSE LET gridKey == <<Num(latGrid), Num(lngFrom)>>
             cells   == IF MapHas(spatialIndex, gridKey)
                        THEN MapGet(spatialIndex, gridKey) ELSE <<>>
         IN  cells \o CellsOfRow(spatialIndex, latGrid, lngFrom + 1, lngTo)

RECURSIVE CellsOfRows(_, _, _, _, _)
CellsOfRows(spatialIndex, latFrom, latTo, lngFrom, lngTo) ==
    IF latFrom > latTo THEN <<>>
    ELSE CellsOfRow(spatialIndex, latFrom, lngFrom, lngTo)
         \o CellsOfRows(spatialIndex, latFrom + 1, latTo, lngFrom, lngTo)

\* results.sort((a, b) => a.distance - b.distance), which is stable
RECURSIVE InsertByDistance(_, _)
InsertByDistance(item, sorted) ==
    IF sorted = <<>> THEN <<item>>
    ELSE IF item.distance < Head(sorted).distance THEN <<item>> \o sorted
    ELSE <<Head(sorted)>> \o InsertByDistance(item, Tail(sorted))

RECURSIVE SortByDistance(_)
SortByDistance(results) ==
    IF results = <<>> THEN <<>>
    ELSE InsertByDistance(results[Len(results)],
                          SortByDistance(SubSeq(results, 1, Len(results) - 1)))

\* The sort on the return at the end of the scan
SortResults(results) == Returns(SortByDistance(results))

\* The body of the loops of searchByRadius over the stubs of the cells
RECURSIVE ScanCells(_, _, _, _, _, _, _)
ScanCells(idx, cells, lat, lng, radiusKm, results, limit) ==
    IF cells = <<>> THEN SortResults(results)
    ELSE LET cell     == Head(cells)
             latDelta == LatDelta(radiusKm)
             lngDelta == LngDelta(radiusKm, lat)
             inBox    == /\ Between(cell.lat, lat - latDelta, lat + latDelta)
                         /\ Between(cell.lng, lng - lngDelta, lng + lngDelta)
             distance == Haversine(lat, lng, cell.lat.v, cell.lng.v)
             record   == get(idx, cell.zip)
             pushed   == IF record # JSNull
                         THEN Append(results, [record |-> record, distance |-> distance])
                         ELSE results
         IN  IF inBox /\ distance <= radiusKm * 1000
             THEN IF record = TypeError THEN Throws
                  ELSE IF Len(pushed) >= limit THEN Returns(SortByDistance(pushed))
                  ELSE ScanCells(idx, Tail(cells), lat, lng, radiusKm, pushed, limit)
             ELSE ScanCells(idx, Tail(cells), lat, lng, radiusKm, results, limit)

\* searchByRadius(lat, lng, radiusKm, limit)
searchByRadius(idx, lat, lng, radiusKm, limit) ==
    LET latDelta == LatDelta(radiusKm)
        lngDelta == LngDelta(radiusKm, lat)
    IN  ScanCells(idx,
                  CellsOfRows(idx.spatialIndex,
                              (lat - latDelta) \div GRID_SIZE, (lat + latDelta) \div GRID_SIZE,
                              (lng - lngDelta) \div GRID_SIZE, (lng + lngDelta) \div GRID_SIZE),
                  lat, lng, radiusKm, <<>>, limit)

\* ------------------------------------------------------------------------
\* ZIPCodeIndex: the records loaded and the calls made
\* ------------------------------------------------------------------------
\* The most stubs the spatial index is let grow to
MaxStubs == 6

\* "10001", "10002", "07302", "00501", "10003"
Zip10001 == Str(<<49, 48, 48, 48, 49>>)

Zip10002 == Str(<<49, 48, 48, 48, 50>>)

Zip07302 == Str(<<48, 55, 51, 48, 50>>)

Zip00501 == Str(<<48, 48, 53, 48, 49>>)

Zip10003 == Str(<<49, 48, 48, 48, 51>>)

\* "NY", "NJ", "York", "Troy", "36061", "34017"
StateNY == Str(<<78, 89>>)

StateNJ == Str(<<78, 74>>)

CityYork == Str(<<89, 111, 114, 107>>)

CityTroy == Str(<<84, 114, 111, 121>>)

CountyNewYork == Str(<<51, 54, 48, 54, 49>>)

CountyHudson == Str(<<51, 52, 48, 49, 55>>)

ZipRecord(zip, lat, lng, state_id, city, county_fips) ==
    [zip |-> zip, lat |-> lat, lng |-> lng, state_id |-> state_id, city |-> city,
     county_fips |-> county_fips]

\* A record at a place
RecordAt(zip, place, state_id, city, county_fips) ==
    ZipRecord(zip, Num(place[1]), Num(place[2]), state_id, city, county_fips)

\* Well-formed records: three places around New York, 10001 once more after
\* it moved, and a ZIP whose coordinates are null
Record10001 == RecordAt(Zip10001, PlaceA, StateNY, CityYork, CountyNewYork)

Record10002 == RecordAt(Zip10002, PlaceB, StateNY, CityYork, CountyNewYork)

Record07302 == RecordAt(Zip07302, PlaceC, StateNJ, CityTroy, CountyHudson)

Record10001Moved == RecordAt(Zip10001, PlaceC, StateNJ, CityTroy, CountyHudson)

Record00501 == ZipRecord(Zip00501, JSNull, JSNull, StateNY, CityTroy, CountyNewYork)

\* Malformed entries: one without a ZIP, one without coordinates
RecordNoZip == RecordAt(NoString, PlaceB, StateNJ, CityTroy, CountyHudson)

RecordNoCoordinates ==
    ZipRecord(Zip10003, Undefined, Undefined, StateNY, CityYork, CountyNewYork)

\* !record.zip || record.lat === null || record.lng === null
Malformed(record) ==
    ~Truthy(record.zip) \/ record.lat = JSNull \/ record.lng = JSNull

\* The parsed responses loadFromJSON is given
Datasets ==
    {<<Record10001>>,
     <<Record07302, Record10001, Record10002>>,
     <<Record10001, Record00501, Record10001Moved>>,
     <<Record10001Moved>>,
     <<RecordNoZip, Record10002, RecordNoCoordinates>>}

\* The number of stubs in the spatial index
RECURSIVE StubCount(_)
StubCount(spatialIndex) ==
    IF spatialIndex = <<>> THEN 0
    ELSE Len(Head(spatialIndex).value) + StubCount(Tail(spatialIndex))

InitIndex ==
    /\ options = DefaultOptions
    /\ clock = 0
    /\ ticks = 0
    /\ timeOrigin = EpochOrigin
    /\ storage = <<>>
    /\ cacheTimers = <<>>
    /\ requestTimestamps = <<>>
    /\ calls = [c \in CallIds |-> IdleCall]
    /\ microtasks = <<>>
    /\ network = {}
    /\ issued = <<>>
    /\ lastOp = NoOp
    /\ validations = <<>>
    /\ index = NewIndex

\* What a call on the index leaves unchanged
ServiceUnchanged ==
    UNCHANGED <<clock, ticks, timeOrigin, storage, cacheTimers, requestTimestamps,
                calls, microtasks, network, issued, options, validations>>

\* await loadFromJSON(url) whose response parses into data
LoadFromJSON(data) ==
    /\ StubCount(loadFromJSON(index, data).spatialIndex) <= MaxStubs
    /\ index' = loadFromJSON(index, data)
    /\ lastOp' = [op |-> "load", data |-> data]
    /\ ServiceUnchanged

\* buildSpatialIndex() called once more
BuildSpatialIndex ==
    /\ StubCount(buildSpatialIndex(index).spatialIndex) <= MaxStubs
    /\ index' = buildSpatialIndex(index)
    /\ lastOp' = [op |-> "build"]
    /\ ServiceUnchanged

\* clear()
Clear ==
    /\ index' = clear(index)
    /\ lastOp' = [op |-> "clear"]
    /\ ServiceUnchanged

\* The ZIP strings looked up: "501", "00501", "1", "10001"
QueryZips == {Str(<<53, 48, 49>>), Zip00501, Str(<<49>>), Zip10001}

\* The limits queries are called with; the last stands for the defaults
Limits == {0, 2, 100}

\* "ny", "NJ"
QueryStates == {Str(<<110, 121>>), StateNJ}

\* "YORK"
QueryCities == {<<89, 79, 82, 75>>}

QueryPlaces == {PlaceA, PlaceB, PlaceLA}

QueryRadii == {0, 2}

\* [minLat, minLng, maxLat, maxLng] around New York, and of the whole map
QueryBounds ==
    {<<407000, -741000, 408000, -739000>>, <<-900000, -1800000, 900000, 1800000>>}

Get(zip) ==
    /\ lastOp' = [op |-> "get", zip |-> zip, result |-> get(index, zip)]
    /\ UNCHANGED index
    /\ ServiceUnchanged

GetByState(stateId, limit) ==
    /\ lastOp' = [op |-> "getByState", stateId |-> stateId, limit |-> limit,
                  result |-> getByState(index, stateId, limit)]
    /\ UNCHANGED index
    /\ ServiceUnchanged

SearchByCity(cityName, stateId, limit) ==
    /\ lastOp' = [op |-> "searchByCity", cityName |-> cityName, stateId |-> stateId,
                  limit |-> limit,
                  result |-> searchByCity(index, cityName, stateId, limit)]
    /\ UNCHANGED index
    /\ ServiceUnchanged

GetByCounty(countyFips, limit) ==
    /\ lastOp' = [op |-> "getByCounty", countyFips |-> countyFips, limit |-> limit,
                  result |-> getByCounty(index, countyFips, limit)]
    /\ UNCHANGED index
    /\ ServiceUnchanged

SearchByRadius(place, radiusKm, limit) ==
    /\ lastOp' = [op |-> "searchByRadius", lat |-> place[1], lng |-> place[2],
                  radiusKm |-> radiusKm, limit |-> limit,
                  result |-> searchByRadius(index, place[1], place[2], radiusKm, limit)]
    /\ UNCHANGED index
    /\ ServiceUnchanged

SearchByBoundingBox(bounds, limit) ==
    /\ lastOp' = [op |-> "searchByBoundingBox", bounds |-> bounds, limit |-> limit,
                  result |-> searchByBoundingBox(index, bounds, limit)]
    /\ UNCHANGED index
    /\ ServiceUnchanged

NextIndex ==
    \/ \E data \in Datasets : LoadFromJSON(data)
    \/ BuildSpatialIndex
    \/ Clear
    \/ \E zip \in QueryZips : Get(zip)
    \/ \E stateId \in QueryStates, limit \in Limits : GetByState(stateId, limit)
    \/ \E cityName \in QueryCities, stateId \in QueryStates \cup {NullString}, limit \in Limits :
           SearchByCity(cityName, stateId, limit)
    \/ \E limit \in Limits : GetByCounty(CountyNewYork.s, limit)
    \/ \E place \in QueryPlaces, radiusKm \in QueryRadii, limit \in Limits :
           SearchByRadius(place, radiusKm, limit)
    \/ \E bounds \in QueryBounds, limit \in Limits : SearchByBoundingBox(bounds, limit)

SpecIndex == InitIndex /\ [][NextIndex]_vars

\* C22: in every state of the index, get of a ZIP string of at most 5
\* characters returns what get of the string left-padded with zeros to 5
\* characters returns.
C22_GetPads ==
    \A zip \in QueryZips :
        Len(zip.s) <= ZipLength =>
            get(index, zip) = get(index, Str(padStart(zip.s, ZipLength, ZeroChar)))

\* C22 witness: get("501") returned the record stored under "00501".
C22_Witness ==
    /\ lastOp.op = "get"
    /\ Len(lastOp.zip.s) < ZipLength
    /\ lastOp.result # JSNull
    /\ lastOp.result = get(index, Zip00501)

\* How often a ZIP is among the records a query returned
Occurrences(items, zip) ==
    Cardinality({i \in DOMAIN items : items[i] # JSNull /\ items[i].zip = zip})

\* How often a ZIP has a stub in the spatial index
StubsOf(spatialIndex, zip) ==
    Cardinality({<<i, j>> \in (DOMAIN spatialIndex) \X (1..MaxStubs) :
                    /\ j \in DOMAIN spatialIndex[i].value
                    /\ spatialIndex[i].value[j].zip = zip})

\* C23: however often a record was loaded, getByState for its state code
\* returns a collection that holds its ZIP exactly once.
C23_StateOnce ==
    \A e \in DOMAIN index.zips :
        LET record == index.zips[e].value
            result == getByState(index, record.state_id, 100)
        IN  (record.zip.t = "str" /\ Truthy(record.state_id)) =>
                /\ ~result.threw
                /\ Occurrences(result.items, record.zip) = 1

\* The ZIP strings of the model
ZipKeys == QueryZips \cup {Zip10001, Zip10002, Zip07302, Zip00501, Zip10003}

\* The positions of a loaded array that hold a record with this ZIP
LoadedAt(data, zip) == {i \in DOMAIN data : data[i].zip = zip}

\* A step that is a loadFromJSON call
IsLoad == lastOp'.op = "load" /\ (lastOp' # lastOp \/ index' # index)

\* C24: get of a key returns the record loaded last with that key: nothing is
\* found in a new or cleared index, a load leaves get of every 5-character
\* key it has no record for as it was, and makes get of every other one
\* return the last record of the load with that key.
C24_LastWriteWins ==
    /\ \A zip \in ZipKeys : get(index, zip) = JSNull
    /\ [][/\ lastOp'.op = "clear" => \A zip \in ZipKeys : get(index', zip) = JSNull
          /\ IsLoad =>
                \A zip \in ZipKeys :
                    LET at == LoadedAt(lastOp'.data, zip)
                    IN  Len(zip.s) = ZipLength =>
                            get(index', zip) =
                                IF at = {} THEN get(index, zip)
                                ELSE lastOp'.data[CHOOSE i \in at : \A j \in at : j <= i]
         ]_vars

\* C24 witness: a load held two records for 10001, and get returns the second.
C24_Witness ==
    /\ lastOp.op = "load"
    /\ Cardinality(LoadedAt(lastOp.data, Zip10001)) = 2
    /\ get(index, Zip10001) = Record10001Moved
    /\ get(index, Zip10003) = JSNull

\* The stubs of a grid cell of the spatial index
StubsIn(spatialIndex, gridKey) ==
    IF MapHas(spatialIndex, gridKey) THEN MapGet(spatialIndex, gridKey) ELSE <<>>

\* C25: every stored record that has both coordinates has exactly one stub in
\* the spatial index of a loaded index, in the cell of its own coordinates.
C25_OneStubPerRecord ==
    index.loaded =>
        \A e \in DOMAIN index.zips :
            LET record == index.zips[e].value
                own    == StubsIn(index.spatialIndex,
                                  getGridKey(record.lat, record.lng, GRID_SIZE))
            IN  (record.zip.t = "str" /\ record.lat.t = "num" /\ record.lng.t = "num") =>
                    /\ StubsOf(index.spatialIndex, record.zip) = 1
                    /\ \E j \in DOMAIN own : own[j].zip = record.zip

\* The great-circle distance in metres of a record from a point, by the
\* record's own coordinates
DistanceOf(record, lat, lng) == Haversine(lat, lng, record.lat.v, record.lng.v)

\* C26: searchByRadius returns no record farther than radiusKm from the query
\* point; with a radius of 0 every record returned is at the query point.
C26_WithinRadius ==
    (lastOp.op = "searchByRadius" /\ ~lastOp.result.threw) =>
        \A i \in DOMAIN lastOp.result.items :
            DistanceOf(lastOp.result.items[i].record, lastOp.lat, lastOp.lng)
                <= lastOp.radiusKm * 1000

\* The calls that take a limit
LimitedOps == {"getByState", "getByCounty", "searchByCity", "searchByRadius",
               "searchByBoundingBox"}

\* C27: a query called with a limit returns at most that many records.
C27_AtMostLimit ==
    (lastOp.op \in LimitedOps /\ ~lastOp.result.threw) =>
        Len(lastOp.result.items) <= lastOp.limit

\* The stubs of the whole spatial index, cell after cell
RECURSIVE AllStubs(_)
AllStubs(spatialIndex) ==
    IF spatialIndex = <<>> THEN <<>>
    ELSE Head(spatialIndex).value \o AllStubs(Tail(spatialIndex))

\* The stubs of records that are stored, whose distance from the point,
\* computed as searchByRadius does, is at most the radius
MatchesFound(idx, lat, lng, radiusKm) ==
    SelectSeq(AllStubs(idx.spatialIndex),
              LAMBDA cell : /\ cell.lat.t = "num" /\ cell.lng.t = "num"
                            /\ Between(cell.lat, lat - LatDelta(radiusKm),
                                       lat + LatDelta(radiusKm))
                            /\ Between(cell.lng, lng - LngDelta(radiusKm, lat),
                                       lng + LngDelta(radiusKm, lat))
                            /\ Haversine(lat, lng, cell.lat.v, cell.lng.v) <= radiusKm * 1000
                            /\ get(idx, cell.zip) # JSNull)

\* The stored records that are, by their own coordinates, within the radius
RecordsWithin(idx, lat, lng, radiusKm) ==
    {e \in DOMAIN idx.zips :
        LET record == idx.zips[e].value
        IN  /\ record.lat.t = "num" /\ record.lng.t = "num"
            /\ DistanceOf(record, lat, lng) <= radiusKm * 1000}

\* A searchByRadius call that returned without reaching its limit
ScannedAll ==
    /\ lastOp.op = "searchByRadius"
    /\ ~lastOp.result.threw
    /\ Len(lastOp.result.items) < lastOp.limit

\* The result is in ascending order of the attached distance
SortedByDistance(items) ==
    \A i, j \in DOMAIN items : i < j => items[i].distance <= items[j].distance

\* The result holds every match of the scan, once per stub
HoldsMatches(items, matches) ==
    /\ Len(items) = Len(matches)
    /\ \A m \in DOMAIN matches :
           \E i \in DOMAIN items :
               /\ items[i].record = get(index, matches[m].zip)
               /\ items[i].distance = Haversine(lastOp.lat, lastOp.lng,
                                                matches[m].lat.v, matches[m].lng.v)

\* C28: a searchByRadius call that scanned all cells without reaching its
\* limit returns every match found, in ascending order of distance, and
\* returns the empty sequence when no record is within the radius.
C28_SortedWhenScannedAll ==
    ScannedAll =>
        /\ SortedByDistance(lastOp.result.items)
        /\ HoldsMatches(lastOp.result.items,
                        MatchesFound(index, lastOp.lat, lastOp.lng, lastOp.radiusKm))
        /\ RecordsWithin(index, lastOp.lat, lastOp.lng, lastOp.radiusKm) = {}
               => lastOp.result.items = <<>>

\* The ZIPs a categorical index holds under any of its keys
MembersOf(map) == UNION {Range(map[i].value) : i \in DOMAIN map}

\* A record is in the record store or has left a trace in an index
Ingested(idx, record) ==
    \/ \E e \in DOMAIN idx.zips : idx.zips[e].value = record
    \/ /\ record.zip.t # "str"
       /\ record.zip \in MembersOf(idx.stateIndex) \cup MembersOf(idx.cityIndex)
                         \cup MembersOf(idx.countyIndex)
    \/ \E s \in Range(AllStubs(idx.spatialIndex)) :
           s.zip = record.zip /\ s.lat = record.lat /\ s.lng = record.lng

\* C29: a load rejects the entries that lack a ZIP or coordinates, which are
\* then in neither the record store nor an index, ingests the well-formed
\* entries and completes.
C29_MalformedRejected ==
    lastOp.op = "load" =>
        /\ index.loaded
        /\ \A i \in DOMAIN lastOp.data :
               IF Malformed(lastOp.data[i])
               THEN ~Ingested(index, lastOp.data[i])
               ELSE get(index, lastOp.data[i].zip) # JSNull

\* ------------------------------------------------------------------------
\* The frame of a cache read
\* ------------------------------------------------------------------------
\* The step is one getFromCache call
IsRead == lastOp'.op = "read" /\ clock' = clock /\ cacheTimers' = cacheTimers

\* The store without the item under key, every other item as it was
WithoutKey(st, key) == SelectSeq(st, LAMBDA item : item.key # key)

\* C31: a getFromCache call that finds an expired entry removes exactly that
\* entry and leaves every other item of the store as it was; a call that
\* hits an unexpired entry, or misses on an absent key, leaves the whole
\* store as it was.
C31_ReadFrame ==
    [][IsRead =>
          LET cacheKey == getCacheKey(lastOp'.zip, lastOp'.variables)
              cached   == getItem(storage, cacheKey)
          IN  /\ cached = NULL => (storage' = storage /\ lastOp'.value = NULL)
              /\ (cached # NULL /\ ~ParseThrows(cached)) =>
                     IF lastOp'.at > cached.expiry
                     THEN /\ storage' = WithoutKey(storage, cacheKey)
                          /\ Len(storage') = Len(storage) - 1
                          /\ lastOp'.value = NULL
                     ELSE /\ storage' = storage
                          /\ lastOp'.value # NULL]_vars

\* An expired entry has just been read and removed, and other items remain
C31_Witness ==
    /\ lastOp.op = "read"
    /\ lastOp.before # NULL
    /\ ~ParseThrows(lastOp.before)
    /\ lastOp.at > lastOp.before.expiry
    /\ lastOp.value = NULL
    /\ ~HasKey(storage, getCacheKey(lastOp.zip, lastOp.variables))
    /\ storage # <<>>

\* An unexpired entry has just been read and is still in the store
C31_WitnessHit ==
    /\ lastOp.op = "read"
    /\ lastOp.value # NULL
    /\ HasKey(storage, getCacheKey(lastOp.zip, lastOp.variables))

\* ------------------------------------------------------------------------
\* Cache-format versions: the page is reloaded with a service of another
\* cacheVersion over the same localStorage
\* ------------------------------------------------------------------------
\* The versions a service is configured with
Versions == {DefaultCacheVersion, "2.0"}

\* new ACSAPIService(apiKey, {cacheVersion: version})
VersionOptions == {[DefaultOptions EXCEPT !.cacheVersion = version] : version \in Versions}

\* The (zip, variables) pairs read and written
VersionRequests == {<<"10001", <<VarY, VarX>>>>}

InitVersion ==
    /\ options \in VersionOptions
    /\ clock = 0
    /\ ticks = 0
    /\ timeOrigin = EpochOrigin
    /\ storage \in {cleanCache(prior, timeOrigin) : prior \in {<<>>, <<OtherItem(QuotaChars - EntryChars)>>}}
    /\ cacheTimers = <<>>
    /\ requestTimestamps = <<>>
    /\ calls = [c \in CallIds |-> IdleCall]
    /\ microtasks = <<>>
    /\ network = {}
    /\ issued = <<>>
    /\ lastOp = NoOp
    /\ validations = <<>>
    /\ index = NewIndex

\* The page is reloaded and constructs a service with the given options: the
\* timers, the calls, the requests and the objects of the old page are gone,
\* performance.now() starts again at 0, localStorage stays, and the
\* constructor sets this.requestTimestamps = [] and ends with cleanCache()
\* under the new prefix
Construct(opts) ==
    /\ options' = opts
    /\ clock' = 0
    /\ timeOrigin' = timeOrigin + clock
    /\ ticks' = ticks
    /\ cacheTimers' = <<>>
    /\ \E st \in {storage}, now \in {DateNow} : storage' = cleanCache(st, now)'
    /\ requestTimestamps' = <<>>
    /\ calls' = [c \in CallIds |-> IdleCall]
    /\ microtasks' = <<>>
    /\ network' = {}
    /\ issued' = [i \in DOMAIN issued |-> issued[i] - clock]
    /\ validations' = [i \in DOMAIN validations |-> validations[i] - clock]
    /\ index' = NewIndex
    /\ lastOp' = [op |-> "construct"]

NextVersion ==
    \/ \E opts \in VersionOptions : Construct(opts)
    \/ \E q \in VersionRequests :
           \E data \in CacheData(q[2]) : CallCacheData(q[1], q[2], data)
    \/ \E q \in VersionRequests : CallGetFromCache(q[1], q[2])
    \/ CacheRetry
    \/ ClearErrorLog
    \/ \E d \in CacheSteps : Advance(d)

SpecVersion == InitVersion /\ [][NextVersion]_vars

\* The item is a cache entry written by a service of another version than
\* the given one
OfOtherVersion(item, version) ==
    item.value.kind = "entry" /\ item.value.metadata.cacheVersion # version

\* C32: getFromCache of a service configured with one cache-format version
\* never returns an entry written by a service of another version for the
\* same ZIP and variables, and no step of the service removes or rewrites an
\* entry of another version: it stays in the store as it was written.
C32_VersionIsolation ==
    /\ (lastOp.op = "read" /\ lastOp.value # NULL) =>
           lastOp.value.metadata.cacheVersion = cacheVersion
    /\ [][\A i \in DOMAIN storage :
              OfOtherVersion(storage[i], cacheVersion') =>
                  \E j \in DOMAIN storage' : storage'[j] = storage[i]]_vars

\* A service has just missed on a ZIP and variable set for which the store
\* holds the entry a service of another version wrote
C32_Witness ==
    /\ lastOp.op = "read"
    /\ lastOp.value = NULL
    /\ \E i \in DOMAIN storage :
           /\ OfOtherVersion(storage[i], cacheVersion)
           /\ storage[i].key.zip = lastOp.zip
           /\ storage[i].key.hash = getCacheKey(lastOp.zip, lastOp.variables).hash
           /\ lastOp.at <= storage[i].value.expiry

\* C33: pruning removes from requestTimestamps only the timestamps older than
\* 60 seconds: the timestamp recorded for a request of a batch sent less
\* than 60 seconds ago is still in the window, where the next admission
\* check counts it.
C33_RecentCounted ==
    \A i \in DOMAIN issued :
        (PerformanceNow - issued[i] < RateWindow /\ issued[i] \notin Range(validations)) =>
            \E j \in DOMAIN requestTimestamps : requestTimestamps[j] = issued[i]

\* ------------------------------------------------------------------------
\* A request list that names a ZIP twice
\* ------------------------------------------------------------------------
\* The ZIP list of a caller that passes a ZIP twice (zipCodes is not
\* deduplicated by fetchDataForZips)
RepeatedZips == <<"10001", "10002", "10001">>

NextRepeated ==
    \/ \E c \in CallIds : FetchDataForZips(c, RepeatedZips, <<VarY, VarX>>)
    \/ SendRequest
    \/ \E r \in network, status \in Statuses : ResponseArrives(r, status)
    \/ \E r \in BatchRequests : \E rows \in Rows(calls[r.call].batches[r.batch].zips) :
           RespondOk(r, rows)
    \/ \E r \in network, error \in Errors : RespondError(r, error)
    \/ \E c \in CallIds, b \in 1..Cardinality(Zips) : AwaitSleep(c, b)
    \/ \E c \in CallIds, b \in 1..Cardinality(Zips) : WakeBatch(c, b)
    \/ MergeResults
    \/ CacheRetry

SpecRepeated == Init /\ [][NextRepeated]_vars

\* The outcomes a call has for a requested ZIP: served from the cache, in the
\* value of a fulfilled batch, reported missing by a fulfilled batch, or in
\* a batch that was rejected
OutcomesOf(c, zip) ==
    LET batches == calls[c].batches
    IN  (IF \A i \in DOMAIN calls[c].missingZips : calls[c].missingZips[i] # zip
         THEN {"cached"} ELSE {})
        \cup (IF \E b \in DOMAIN batches :
                     batches[b].pc = "fulfilled" /\ zip \in DOMAIN batches[b].value
              THEN {"fetched"} ELSE {})
        \cup (IF \E b \in DOMAIN batches :
                     batches[b].pc = "fulfilled" /\ zip \in Range(batches[b].missing)
              THEN {"missing"} ELSE {})
        \cup (IF \E b \in DOMAIN batches :
                     batches[b].pc = "rejected" /\ zip \in Range(batches[b].zips)
              THEN {"failed"} ELSE {})

\* C34: every key of the object a call returns is a requested ZIP, and every
\* requested ZIP has exactly one outcome: cache hit, fetched, missing from
\* the response, or member of a failed batch.
C34_OneOutcome ==
    \A c \in CallIds :
        calls[c].pc = "resolved" =>
            /\ DOMAIN ReturnValue(c) \subseteq Range(calls[c].zipCodes)
            /\ \A zip \in Range(calls[c].zipCodes) :
                   Cardinality(OutcomesOf(c, zip)) = 1

\* ------------------------------------------------------------------------
\* chunkArray on its own
\* ------------------------------------------------------------------------
\* The longest pending list chunked
MaxPending == 4

\* The ZIPs of pending lists
PendingZips == Zips \cup {"07302"}

\* The lists of distinct ZIPs of at most n ZIPs
RECURSIVE DistinctLists(_)
DistinctLists(n) ==
    IF n = 0 THEN {<<>>}
    ELSE LET shorter == DistinctLists(n - 1)
             longer  == {Append(s, zip) : s \in shorter, zip \in PendingZips}
         IN  shorter \cup {s \in longer : \A i, j \in DOMAIN s : i # j => s[i] # s[j]}

\* The batch sizes a service is configured with
BatchSizes == 1..3

\* const batches = this.chunkArray(missingZips, this.batchSize)
ChunkArray(array, size) ==
    /\ lastOp' = [op |-> "chunk", array |-> array, size |-> size,
                  chunks |-> chunkArray(array, size)]
    /\ UNCHANGED <<index, options, validations, clock, ticks, timeOrigin, storage, cacheTimers,
                   requestTimestamps, calls, microtasks, network, issued>>

NextChunk ==
    \E array \in DistinctLists(MaxPending), size \in BatchSizes : ChunkArray(array, size)

SpecChunk == Init /\ [][NextChunk]_vars

\* The chunks one after the other
RECURSIVE Flatten(_)
Flatten(chunks) == IF chunks = <<>> THEN <<>> ELSE Head(chunks) \o Flatten(Tail(chunks))

\* C36: chunkArray partitions a list of distinct ZIPs: the chunks in order
\* are the list, so every ZIP is in exactly one chunk and no two chunks share
\* a ZIP; every chunk holds at least one and at most size ZIPs, and every
\* chunk but the last holds exactly size ZIPs.
C36_ChunksPartition ==
    lastOp.op = "chunk" =>
        LET chunks == lastOp.chunks
        IN  /\ Flatten(chunks) = lastOp.array
            /\ \A i \in DOMAIN chunks :
                   /\ Len(chunks[i]) >= 1
                   /\ Len(chunks[i]) <= lastOp.size
                   /\ i < Len(chunks) => Len(chunks[i]) = lastOp.size
            /\ \A i, j \in DOMAIN chunks :
                   i # j => Range(chunks[i]) \cap Range(chunks[j]) = {}

\* A list was chunked into full chunks followed by a shorter last chunk
C36_Witness ==
    /\ lastOp.op = "chunk"
    /\ Len(lastOp.chunks) >= 2
    /\ Len(lastOp.chunks[Len(lastOp.chunks)]) < lastOp.size
    /\ Len(lastOp.chunks[1]) = lastOp.size

\* C37: a failed cache write never makes fetchDataForZips reject, and the
\* entry whose write failed stays in the returned result: a call rejects
\* only for its input, and a resolved call returns every entry of every
\* fulfilled batch, written or not.
C37_WriteFailureIsHarmless ==
    \A c \in CallIds :
        /\ calls[c].pc = "rejected" =>
               /\ calls[c].batches = <<>>
               /\ calls[c].error = ValidationError(calls[c].zipCodes, calls[c].variables)
               /\ calls[c].error # ""
        /\ calls[c].pc = "resolved" =>
               \A b \in DOMAIN calls[c].batches :
                   calls[c].batches[b].pc = "fulfilled" =>
                       \A zip \in DOMAIN calls[c].batches[b].value :
                           /\ zip \in DOMAIN ReturnValue(c)
                           /\ ReturnValue(c)[zip] = calls[c].batches[b].value[zip]

\* A call has returned an entry whose cache write failed for the quota: the
\* retry of the write is scheduled and the store does not hold the entry
C37_Witness ==
    \E c \in CallIds :
        /\ calls[c].pc = "resolved"
        /\ \E i \in DOMAIN cacheTimers :
               /\ cacheTimers[i].zip \in DOMAIN ReturnValue(c)
               /\ ReturnValue(c)[cacheTimers[i].zip] = cacheTimers[i].data
               /\ ~HasKey(storage, getCacheKey(cacheTimers[i].zip, calls[c].variables))

\* ------------------------------------------------------------------------
\* Termination of a call: the timers fire and every request is answered
\* ------------------------------------------------------------------------
\* The response of a request arrives, its body is read, or the request
\* fails: the abort by the timeout is a failure like any other for
\* fetchBatchWithRetry and arrives once the clock has reached it
Respond ==
    \/ \E r \in network, status \in Statuses : ResponseArrives(r, status)
    \/ \E r \in BatchRequests : \E rows \in Rows(calls[r.call].batches[r.batch].zips) :
           RespondOk(r, rows)
    \/ \E r \in network, error \in Errors \cup {AbortError} : RespondError(r, error)

\* A timer of a sleeping batch fires and the batch continues
Wake == \E c \in CallIds, b \in 1..Cardinality(Zips) : WakeBatch(c, b)

\* Time reaches the next wake-up of a sleeping batch
Sleep == \E c \in CallIds, b \in 1..Cardinality(Zips) : AwaitSleep(c, b)

NextLive ==
    \/ \E c \in CallIds : FetchDataForZips(c, <<"10001", "10002", "10003">>, <<VarY, VarX>>)
    \/ SendRequest
    \/ Respond
    \/ Sleep
    \/ Wake
    \/ MergeResults
    \/ CacheRetry

\* A task of the event loop: a response arrives, the clock reaches a timer,
\* or a due timer fires
Task == Respond \/ Sleep \/ Wake

\* The event loop never idles while a timer is pending or a request is
\* outstanding, and it runs the microtask queue to its end: the
\* continuations of admitted batches (SendRequest) and of Promise.allSettled
\* (MergeResults) are queued only by a task, and a task runs only when the
\* queue is empty, so that weak fairness of the microtask steps is the queue
\* being empty again and again
SpecLive ==
    /\ Init
    /\ [][NextLive]_vars
    /\ WF_vars(Task)
    /\ []<>(microtasks = <<>>)

\* C38: every fetchDataForZips call that dispatched batches eventually
\* settles with every batch of it fulfilled or rejected: no batch stays in the
\* wait of enforceRateLimit or in a backoff sleep.
C38_CallSettles ==
    \A c \in CallIds :
        (calls[c].pc = "awaiting") ~>
            (/\ calls[c].pc \in {"resolved", "rejected"}
             /\ \A b \in DOMAIN calls[c].batches : Settled(calls[c].batches[b]))

\* A call has settled after one of its batches waited in enforceRateLimit
\* more than once and another ran out of attempts
C38_Witness ==
    \E c \in CallIds :
        /\ calls[c].pc = "resolved"
        /\ \E b \in DOMAIN calls[c].batches :
               calls[c].batches[b].pc = "fulfilled" /\ calls[c].batches[b].rechecks >= 2
        /\ \E b \in DOMAIN calls[c].batches :
               calls[c].batches[b].pc = "rejected" /\ calls[c].batches[b].failures = maxRetries

\* C35: every record getByState(s) returns has state_id = s and every
\* record getByCounty(f) returns has county_fips = f, after any sequence of
\* loads.
C35_CategoryMatches ==
    /\ (lastOp.op = "getByState" /\ ~lastOp.result.threw) =>
           \A i \in DOMAIN lastOp.result.items :
               LET record == lastOp.result.items[i]
               IN  record # JSNull /\ record.state_id = Str(toUpperCase(lastOp.stateId.s))
    /\ (lastOp.op = "getByCounty" /\ ~lastOp.result.threw) =>
           \A i \in DOMAIN lastOp.result.items :
               LET record == lastOp.result.items[i]
               IN  record # JSNull /\ record.county_fips = Str(lastOp.countyFips)

\* The record lacks its latitude or its longitude
LacksCoordinates(record) == record.lat.t # "num" \/ record.lng.t # "num"

\* C39: a record without latitude or longitude is found by get and is
\* returned by no spatial query, whatever the query point, radius or box.
C39_NoCoordinatesNoSpatialResult ==
    /\ \A e \in DOMAIN index.zips :
           LET record == index.zips[e].value
           IN  (LacksCoordinates(record) /\ record.zip.t = "str") =>
                   get(index, record.zip) = record
    /\ (lastOp.op = "searchByBoundingBox" /\ ~lastOp.result.threw) =>
           \A i \in DOMAIN lastOp.result.items :
               ~LacksCoordinates(lastOp.result.items[i])
    /\ (lastOp.op = "searchByRadius" /\ ~lastOp.result.threw) =>
           \A i \in DOMAIN lastOp.result.items :
               ~LacksCoordinates(lastOp.result.items[i].record)

====
